---- MODULE Spec2Model ----
(***************************************************************************)
(* langtoolkit: the tool hub (src/langtoolkit/tool.py).                    *)
(*                                                                         *)
(* UnifiedToolHub keeps an insertion-ordered name table, a text cache and  *)
(* an in-memory embedding index.  Python strings are modelled as sequences *)
(* of one-character strings, so that suffixing, lowercasing, tokenizing,   *)
(* substring tests and string ordering are computed, not assumed.          *)
(***************************************************************************)
EXTENDS Integers, Sequences, FiniteSets, TLC

VARIABLES
    name_to_tool,   \* self._name_to_tool: ordered dict, a sequence of [key, val]
    tool_text,      \* self._tool_text: ordered dict, a sequence of [key, val]
    vectorstore,    \* self._vectorstore: the documents of the index, in insertion order
    toolName,       \* the visible name attribute of every handle object
    embedding_model, \* the embedding_model argument the hub was constructed with
    environ,        \* the process: which optional embedding classes were imported,
                    \* and the value of OPENAI_API_KEY
    embedding,      \* self._embedding: the embedding function the hub uses
    ingested,       \* history: every LoadedTool ingested so far, with the key it was given
    task,           \* the calls in progress: the position and the locals of each
    calls,          \* history: the calls made to collaborators, in order
    last            \* the last completed hub operation: its inputs, index calls and result

vars == <<name_to_tool, tool_text, vectorstore, toolName, embedding_model, environ,
          embedding, ingested, task, calls, last>>

\* ------------------------------------------------------------------ bounds
MaxTools == 3      \* registered tools per hub
MaxBatch == 2      \* items per add_loaded_tools call
MaxK == 2          \* largest k passed to query_tools

\* --------------------------------------------------------- Python strings
Min(a, b) == IF a < b THEN a ELSE b
Max(a, b) == IF a > b THEN a ELSE b

\* printable ASCII in code-point order, starting at code point 32
AsciiChars ==
    << " ", "!", "\"", "#", "$", "%", "&", "'", "(", ")", "*", "+", ",", "-", ".", "/",
       "0", "1", "2", "3", "4", "5", "6", "7", "8", "9", ":", ";", "<", "=", ">", "?",
       "@", "A", "B", "C", "D", "E", "F", "G", "H", "I", "J", "K", "L", "M", "N", "O",
       "P", "Q", "R", "S", "T", "U", "V", "W", "X", "Y", "Z", "[", "\\", "]", "^", "_",
       "BACKTICK", "a", "b", "c", "d", "e", "f", "g", "h", "i", "j", "k", "l", "m", "n", "o",
       "p", "q", "r", "s", "t", "u", "v", "w", "x", "y", "z", "{", "|", "}", "~" >>

Controls == << "\t", "\n", "\r" >>
Chars == { AsciiChars[i] : i \in DOMAIN AsciiChars } \cup { Controls[i] : i \in DOMAIN Controls }

\* ord(ch): tab, newline and carriage return are code points 9, 10 and 13
OrdTable ==
    [ch \in Chars |->
        IF ch = "\t" THEN 9 ELSE IF ch = "\n" THEN 10 ELSE IF ch = "\r" THEN 13
        ELSE 31 + (CHOOSE i \in DOMAIN AsciiChars : AsciiChars[i] = ch)]
Ord(ch) == OrdTable[ch]

\* str.lower() on one character: A..Z (65..90) map to a..z
LowerTable ==
    [ch \in Chars |->
        IF OrdTable[ch] >= 65 /\ OrdTable[ch] <= 90 THEN AsciiChars[OrdTable[ch] + 1] ELSE ch]
LowerChar(ch) == LowerTable[ch]

\* str.lower()
Lower(s) == SubSeq([i \in DOMAIN s |-> LowerChar(s[i])], 1, Len(s))

\* a < b on Python strings: lexicographic by code point
RECURSIVE StrLess(_, _)
StrLess(a, b) ==
    IF b = << >> THEN FALSE
    ELSE IF a = << >> THEN TRUE
    ELSE IF a[1] # b[1] THEN Ord(a[1]) < Ord(b[1])
    ELSE StrLess(Tail(a), Tail(b))

\* the substring test (t in s) on Python strings
IsSubstr(t, s) == \E i \in 0..(Len(s) - Len(t)) : \A j \in 1..Len(t) : s[i + j] = t[j]

Digit(d) == AsciiChars[17 + d]

\* str(n) of an integer
RECURSIVE NatToStr(_)
NatToStr(n) == IF n < 10 THEN << Digit(n) >> ELSE NatToStr(n \div 10) \o << Digit(n % 10) >>
IntToStr(n) == IF n < 0 THEN << "-" >> \o NatToStr(0 - n) ELSE NatToStr(n)

\* ----------------------------------------------------------- Python dicts
\* an insertion-ordered dict is a sequence of [key, val] with distinct keys
DictKeys(d) == { d[i].key : i \in DOMAIN d }
DictHas(d, k) == \E i \in DOMAIN d : d[i].key = k
DictGet(d, k) == d[CHOOSE i \in DOMAIN d : d[i].key = k].val
\* d[k] = v: rebinds an existing key in place, appends a new one
DictSet(d, k, v) ==
    IF DictHas(d, k)
    THEN SubSeq([i \in DOMAIN d |-> IF d[i].key = k THEN [key |-> k, val |-> v] ELSE d[i]],
                1, Len(d))
    ELSE Append(d, [key |-> k, val |-> v])
DictValues(d) == SubSeq([i \in DOMAIN d |-> d[i].val], 1, Len(d))
DictKeyList(d) == SubSeq([i \in DOMAIN d |-> d[i].key], 1, Len(d))

\* ------------------------------------------------------------ LoadedTool
Handles == {"h1", "h2", "h3"}
\* handle objects whose attribute assignment raises (setattr fails)
FrozenHandles == {"h3"}

NameDup == << "d", "u", "p" >>
NameDup2 == << "d", "u", "p", "_", "2" >>
SrcSdk == << "s", "d", "k" >>
SrcMcp == << "m", "c", "p" >>
SrcOpenapi == << "o", "p", "e", "n", "a", "p", "i" >>

LoadedTool(n, d, t, s, o) ==
    [name |-> n, description |-> d, tool |-> t, source |-> s, origin |-> o]

\* the LoadedTool records the loaders hand to the hub
Items ==
    { LoadedTool(NameDup, << >>, "h1", SrcSdk, << "a" >>),
      LoadedTool(NameDup2, << "x" >>, "h2", SrcMcp, << "b" >>),
      LoadedTool(NameDup, << "w", "h", "o" >>, "h3", SrcOpenapi, << "c" >>) }

Batches == UNION { [1..n -> Items] : n \in 0..MaxBatch }

\* ------------------------------------------------------ add_loaded_tools
\* the resolver with the suffix appended to the previous attempt, not to the base
RECURSIVE Suffixed_Chained(_, _, _)
Suffixed_Chained(base, idx, keys) ==
    LET tool_name == base \o << "_" >> \o IntToStr(idx)
    IN  IF tool_name \in keys THEN Suffixed_Chained(tool_name, idx + 1, keys) ELSE tool_name

\* the while loop of the resolver: base_2, base_3, ... until the name is free
RECURSIVE Suffixed(_, _, _)
Suffixed(base, idx, keys) ==
    LET tool_name == base \o << "_" >> \o IntToStr(idx)
    IN  IF tool_name \in keys THEN Suffixed(base, idx + 1, keys) ELSE tool_name

\* the resolver without the collision branch
ResolveName_NoSuffix(name, keys) == name

\* the resolver with an if in place of the while: one attempt, never re-checked
ResolveName_SingleCheck(name, keys) ==
    IF name \in keys THEN name \o << "_", "2" >> ELSE name

ResolveName(name, keys) ==
    IF name \in keys THEN Suffixed(name, 2, keys) ELSE name

\* the rename skipped for a handle that was renamed before
SetName_Once(names, h, n) ==
    IF h \in FrozenHandles \/ names[h] # << "t" >> THEN names ELSE [names EXCEPT ![h] = n]

\* setattr(lt.tool, "name", tool_name) inside try/except: a failure is swallowed
SetName(names, h, n) ==
    IF h \in FrozenHandles THEN names ELSE [names EXCEPT ![h] = n]

\* f"name: {tool_name}\nsource: {lt.source}\norigin: {lt.origin}\n{lt.description}"
ComposeText(tool_name, lt) ==
    << "n", "a", "m", "e", ":", " " >> \o tool_name
    \o << "\n", "s", "o", "u", "r", "c", "e", ":", " " >> \o lt.source
    \o << "\n", "o", "r", "i", "g", "i", "n", ":", " " >> \o lt.origin
    \o << "\n" >> \o lt.description

Document(text, tool_name, lt) ==
    [page_content |-> text,
     metadata |-> [tool_name |-> tool_name, source |-> lt.source, origin |-> lt.origin]]

\* the iteration with the index text composed from the candidate name
IngestItem_CandidateText(st, lt) ==
    LET tool_name == ResolveName(lt.name, DictKeys(st.n2t))
        text == ComposeText(lt.name, lt)
    IN  [n2t |-> DictSet(st.n2t, tool_name, lt.tool),
         text |-> DictSet(st.text, tool_name, text),
         names |-> SetName(st.names, lt.tool, tool_name),
         documents |-> Append(st.documents, Document(text, tool_name, lt)),
         hist |-> Append(st.hist, [item |-> lt, key |-> tool_name])]

\* one iteration of the for loop over new_items
IngestItem(st, lt) ==
    LET tool_name == ResolveName(lt.name, DictKeys(st.n2t))
        text == ComposeText(tool_name, lt)
    IN  [n2t |-> DictSet(st.n2t, tool_name, lt.tool),
         text |-> DictSet(st.text, tool_name, text),
         names |-> SetName(st.names, lt.tool, tool_name),
         documents |-> Append(st.documents, Document(text, tool_name, lt)),
         hist |-> Append(st.hist, [item |-> lt, key |-> tool_name])]

RECURSIVE IngestAll(_, _)
IngestAll(st, items) ==
    IF items = << >> THEN st ELSE IngestAll(IngestItem(st, Head(items)), Tail(items))

\* InMemoryVectorStore.add_documents: embeds all texts first, then stores them;
\* when embed_documents raises nothing has been stored
AddDocuments(store, documents, ok) == IF ok THEN store \o documents ELSE store

IndexCall(call, names, k) == [call |-> call, names |-> names, k |-> k]

DocNames(documents) ==
    SubSeq([i \in DOMAIN documents |-> documents[i].metadata.tool_name], 1, Len(documents))

\* the submission without the emptiness test
SubmitDocuments_Always(store, documents, ok) ==
    [store |-> AddDocuments(store, documents, ok),
     calls |-> << IndexCall("add_documents", DocNames(documents), 0) >>,
     raised |-> ~ok]

\* if documents: self._vectorstore.add_documents(documents)
SubmitDocuments(store, documents, ok) ==
    IF documents # << >>
    THEN [store |-> AddDocuments(store, documents, ok),
          calls |-> << IndexCall("add_documents", DocNames(documents), 0) >>,
          raised |-> ~ok]
    ELSE [store |-> store, calls |-> << >>, raised |-> FALSE]

\* the record of one completed hub operation; text and scored are the locals
\* query_text and scored of query_tools, empty for every other operation
OpRecord(op, query, k, indexCalls, raised, searchFailed, vec, top, result) ==
    [op |-> op, query |-> query, k |-> k, indexCalls |-> indexCalls,
     raised |-> raised, searchFailed |-> searchFailed, vec |-> vec, top |-> top,
     result |-> result, text |-> << >>, scored |-> << >>]

NoQuery == [t |-> "none", s |-> << >>, n |-> 0, items |-> << >>]

AddLoadedTools(items, embedOk) ==
    /\ Len(ingested) + Len(items) <= MaxTools
    /\ \E st \in { IngestAll([n2t |-> name_to_tool, text |-> tool_text, names |-> toolName,
                              documents |-> << >>, hist |-> ingested], items) } :
       \E sub \in { SubmitDocuments(vectorstore, st.documents, embedOk) } :
         /\ (sub.calls = << >> => embedOk)
         /\ name_to_tool' = st.n2t
         /\ tool_text' = st.text
         /\ toolName' = st.names
         /\ ingested' = st.hist
         /\ UNCHANGED <<embedding_model, environ, embedding, task, calls>>
         /\ vectorstore' = sub.store
         /\ last' = OpRecord("add", NoQuery, 0, sub.calls, sub.raised, FALSE,
                             << >>, << >>, << >>)

\* ------------------------------------------------------------- all_tools
AllTools ==
    /\ last' = OpRecord("all", NoQuery, 0, << >>, FALSE, FALSE, << >>, << >>,
                        DictValues(name_to_tool))
    /\ UNCHANGED <<name_to_tool, tool_text, vectorstore, toolName, embedding_model,
                   environ, embedding, ingested, task, calls>>

\* ------------------------------------------------------ _normalize_query
\* a Python value handed to query_tools: t is its type, s the text of a str,
\* n the value of an int, items the entries of a dict ([key, val] in insertion
\* order), the elements of a list, or the content attribute of an object
PyStr(s) == [t |-> "str", s |-> s, n |-> 0, items |-> << >>]
PyInt(n) == [t |-> "int", s |-> << >>, n |-> n, items |-> << >>]
PyDict(items) == [t |-> "dict", s |-> << >>, n |-> 0, items |-> items]
PyList(items) == [t |-> "list", s |-> << >>, n |-> 0, items |-> items]
PyObj(attrs) == [t |-> "obj", s |-> << >>, n |-> 0, items |-> attrs]
Entry(k, v) == [key |-> k, val |-> v]

KeyQuery == << "q", "u", "e", "r", "y" >>
KeyText == << "t", "e", "x", "t" >>
KeyPrompt == << "p", "r", "o", "m", "p", "t" >>
KeyContent == << "c", "o", "n", "t", "e", "n", "t" >>
KeyMessages == << "m", "e", "s", "s", "a", "g", "e", "s" >>

Whitespace == {" ", "\n", "\t", "\r"}
\* value.strip() is truthy: some character is not whitespace
StripTruthy(s) == \E i \in DOMAIN s : s[i] \notin Whitespace

\* isinstance(value, str) and value.strip()
IsText(v) == v.t = "str" /\ StripTruthy(v.s)

\* dict.get(key): None when the key is missing
PyGet(d, key) == IF DictHas(d.items, key) THEN DictGet(d.items, key) ELSE NoQuery

\* getattr(query, "content", None)
ContentAttr(q) ==
    IF q.t = "obj" /\ DictHas(q.items, KeyContent) THEN DictGet(q.items, KeyContent)
    ELSE NoQuery

\* repr() of a str without quotes or escapes in it
ReprStr(s) == << "'" >> \o s \o << "'" >>

\* str() of a query that matched no structured shape
RECURSIVE PyRepr(_)
RECURSIVE JoinEntries(_)
RECURSIVE JoinElems(_)
JoinEntries(items) ==
    IF items = << >> THEN << >>
    ELSE ReprStr(Head(items).key) \o << ":", " " >> \o PyRepr(Head(items).val)
         \o (IF Len(items) > 1 THEN << ",", " " >> ELSE << >>) \o JoinEntries(Tail(items))
JoinElems(items) ==
    IF items = << >> THEN << >>
    ELSE PyRepr(Head(items))
         \o (IF Len(items) > 1 THEN << ",", " " >> ELSE << >>) \o JoinElems(Tail(items))
PyRepr(v) ==
    CASE v.t = "str" -> ReprStr(v.s)
      [] v.t = "int" -> IntToStr(v.n)
      [] v.t = "none" -> << "N", "o", "n", "e" >>
      [] v.t = "dict" -> << "{" >> \o JoinEntries(v.items) \o << "}" >>
      [] v.t = "list" -> << "[" >> \o JoinElems(v.items) \o << "]" >>
      [] v.t = "obj" -> << "<", "o", "b", "j", "e", "c", "t", ">" >>
PyToStr(v) == IF v.t = "str" THEN v.s ELSE PyRepr(v)

TextKeys == << KeyQuery, KeyText, KeyPrompt, KeyContent >>

\* the loop returning the value of the last key that qualifies, not the first
FirstTextKey_LastHit(q) ==
    LET hits == { i \in DOMAIN TextKeys : IsText(PyGet(q, TextKeys[i])) }
    IN  IF hits = {} THEN 0 ELSE CHOOSE i \in hits : \A j \in hits : i >= j

\* the for loop over ("query", "text", "prompt", "content"): the index of the
\* first key holding a non-blank str, 0 when there is none
FirstTextKey(q) ==
    LET hits == { i \in DOMAIN TextKeys : IsText(PyGet(q, TextKeys[i])) }
    IN  IF hits = {} THEN 0 ELSE CHOOSE i \in hits : \A j \in hits : i <= j

\* the exception a subscript out of range raises
IndexError == [t |-> "IndexError", s |-> << >>, n |-> 0, items |-> << >>]
\* items[-1]
PyLast(items) == IF items = << >> THEN IndexError ELSE items[Len(items)]

\* the messages branch reading the first message, not the last
LastMessageContent_FirstMessage(q) ==
    LET messages == PyGet(q, KeyMessages)
        lastm == IF messages.items = << >> THEN IndexError ELSE messages.items[1]
    IN  IF messages.t = "list" /\ messages.items # << >>
        THEN IF lastm.t = "IndexError" THEN IndexError
             ELSE IF lastm.t = "dict" /\ IsText(PyGet(lastm, KeyContent))
             THEN PyGet(lastm, KeyContent)
             ELSE NoQuery
        ELSE NoQuery

\* the messages branch without the test that the list is non-empty
LastMessageContent_NoEmptyTest(q) ==
    LET messages == PyGet(q, KeyMessages)
        lastm == PyLast(messages.items)
    IN  IF messages.t = "list"
        THEN IF lastm.t = "IndexError" THEN IndexError
             ELSE IF lastm.t = "dict" /\ IsText(PyGet(lastm, KeyContent))
             THEN PyGet(lastm, KeyContent)
             ELSE NoQuery
        ELSE NoQuery

\* messages[-1]["content"] when messages is a non-empty list whose last element
\* is a dict with a non-blank str content; None when the branch returns nothing
LastMessageContent(q) ==
    LET messages == PyGet(q, KeyMessages)
        lastm == PyLast(messages.items)
    IN  IF messages.t = "list" /\ messages.items # << >>
        THEN IF lastm.t = "IndexError" THEN IndexError
             ELSE IF lastm.t = "dict" /\ IsText(PyGet(lastm, KeyContent))
             THEN PyGet(lastm, KeyContent)
             ELSE NoQuery
        ELSE NoQuery

Returned(text) == [raised |-> FALSE, text |-> text]
Raised == [raised |-> TRUE, text |-> << >>]

\* _normalize_query: the string it returns, or the exception that leaves it
NormalizeOutcome(q) ==
    IF q.t = "str" THEN Returned(q.s)
    ELSE IF q.t = "dict" /\ FirstTextKey(q) # 0
    THEN Returned(PyGet(q, TextKeys[FirstTextKey(q)]).s)
    ELSE IF q.t = "dict" /\ LastMessageContent(q).t = "IndexError" THEN Raised
    ELSE IF q.t = "dict" /\ LastMessageContent(q).t = "str"
    THEN Returned(LastMessageContent(q).s)
    ELSE IF IsText(ContentAttr(q)) THEN Returned(ContentAttr(q).s)
    ELSE Returned(PyToStr(q))

NormalizeQuery(q) == NormalizeOutcome(q).text

\* hub._normalize_query(query), called on its own
NormalizeQueryCall(query) ==
    /\ \E out \in { NormalizeOutcome(query) } :
          last' = [OpRecord("normalize", query, 0, << >>, out.raised, FALSE,
                            << >>, << >>, << >>) EXCEPT !.text = out.text]
    /\ UNCHANGED <<name_to_tool, tool_text, vectorstore, toolName, embedding_model,
                   environ, embedding, ingested, task, calls>>

\* ----------------------------------------------------------- query_tools
MinPool == 20
SentinelOffset == 1000
NameWeight == 2
SearchBoost == 3
CryptoBoost == 4

\* the character class [a-z0-9]
AlnumChars == { ch \in Chars : \/ (OrdTable[ch] >= 97 /\ OrdTable[ch] <= 122)
                               \/ (OrdTable[ch] >= 48 /\ OrdTable[ch] <= 57) }
IsAlnum(ch) == ch \in AlnumChars

\* re.findall(r"[a-z0-9]+", text): the maximal runs, left to right
RECURSIVE FindRuns(_, _, _)
FindRuns(text, cur, acc) ==
    IF text = << >> THEN (IF cur = << >> THEN acc ELSE Append(acc, cur))
    ELSE IF IsAlnum(Head(text)) THEN FindRuns(Tail(text), Append(cur, Head(text)), acc)
    ELSE FindRuns(Tail(text), << >>, IF cur = << >> THEN acc ELSE Append(acc, cur))

Tokenize(query_text) == FindRuns(Lower(query_text), << >>, << >>)

InTokens(w, tokens) == \E i \in DOMAIN tokens : tokens[i] = w
StartsWith(s, p) == Len(s) >= Len(p) /\ SubSeq(s, 1, Len(p)) = p
EndsWith(s, p) == Len(s) >= Len(p) /\ SubSeq(s, Len(s) - Len(p) + 1, Len(s)) = p
\* sum(1 for t in tokens if t in s)
Hits(tokens, s) == Cardinality({ i \in DOMAIN tokens : IsSubstr(tokens[i], s) })

WordSearch == << "s", "e", "a", "r", "c", "h" >>
WordWho == << "w", "h", "o" >>
WordWhat == << "w", "h", "a", "t" >>
WordBtc == << "b", "t", "c" >>
WordBitcoin == << "b", "i", "t", "c", "o", "i", "n" >>
WordEth == << "e", "t", "h" >>
WordExchange == << "e", "x", "c", "h", "a", "n", "g", "e" >>
WordExchanges == << "e", "x", "c", "h", "a", "n", "g", "e", "s" >>
WordCrypto == << "c", "r", "y", "p", "t", "o" >>
PrefixCcxt == << "c", "c", "x", "t", "_" >>

\* the boost without the two heuristics: token hits only
BoostFor_NoHeuristics(tool_name, tokens, texts) ==
    LET name_l == Lower(tool_name)
        text_l == Lower(IF DictHas(texts, tool_name) THEN DictGet(texts, tool_name)
                        ELSE << >>)
    IN  NameWeight * Hits(tokens, name_l) + Hits(tokens, text_l)

\* the boost with each distinct token counted once, however often it occurs
BoostFor_DistinctTokens(tool_name, tokens, texts) ==
    LET name_l == Lower(tool_name)
        text_l == Lower(IF DictHas(texts, tool_name) THEN DictGet(texts, tool_name)
                        ELSE << >>)
        distinct == { tokens[i] : i \in DOMAIN tokens }
        score == NameWeight * Cardinality({ t \in distinct : IsSubstr(t, name_l) })
                 + Cardinality({ t \in distinct : IsSubstr(t, text_l) })
        general == /\ (InTokens(WordSearch, tokens) \/ InTokens(WordWho, tokens)
                       \/ InTokens(WordWhat, tokens))
                   /\ (IsSubstr(<< "_", "_" >> \o WordSearch, tool_name)
                       \/ EndsWith(tool_name, << "_" >> \o WordSearch))
        finance == /\ \E w \in {WordBtc, WordBitcoin, WordEth, WordExchange, WordExchanges} :
                        InTokens(w, tokens)
                   /\ (StartsWith(tool_name, PrefixCcxt) \/ IsSubstr(WordCrypto, text_l))
    IN  score + (IF general THEN SearchBoost ELSE 0) + (IF finance THEN CryptoBoost ELSE 0)

BoostFor(tool_name, tokens, texts) ==
    LET name_l == Lower(tool_name)
        text_l == Lower(IF DictHas(texts, tool_name) THEN DictGet(texts, tool_name)
                        ELSE << >>)
        score == NameWeight * Hits(tokens, name_l) + Hits(tokens, text_l)
        general == /\ (InTokens(WordSearch, tokens) \/ InTokens(WordWho, tokens)
                       \/ InTokens(WordWhat, tokens))
                   /\ (IsSubstr(<< "_", "_" >> \o WordSearch, tool_name)
                       \/ EndsWith(tool_name, << "_" >> \o WordSearch))
        finance == /\ \E w \in {WordBtc, WordBitcoin, WordEth, WordExchange, WordExchanges} :
                        InTokens(w, tokens)
                   /\ (StartsWith(tool_name, PrefixCcxt) \/ IsSubstr(WordCrypto, text_l))
    IN  score + (IF general THEN SearchBoost ELSE 0) + (IF finance THEN CryptoBoost ELSE 0)

\* if tname: vec_rank.setdefault(tname, idx) over the results: the first
\* position of a name, an empty name never recorded
VecRank(vec, name, default) ==
    LET pos == { i \in DOMAIN vec : vec[i] = name /\ vec[i] # << >> }
    IN  IF pos = {} THEN default ELSE (CHOOSE i \in pos : \A j \in pos : i <= j) - 1

\* the comparison of (b, -vr) alone
TupleLess_NoName(x, y) ==
    \/ x.b < y.b
    \/ (x.b = y.b /\ x.nvr < y.nvr)

\* tuple comparison of (b, -vr, name)
TupleLess(x, y) ==
    \/ x.b < y.b
    \/ (x.b = y.b /\ x.nvr < y.nvr)
    \/ (x.b = y.b /\ x.nvr = y.nvr /\ StrLess(x.name, y.name))

\* the sort without reverse=True: ascending
RECURSIVE SortReverse_Ascending(_)
SortReverse_Ascending(scored) ==
    IF scored = << >> THEN << >>
    ELSE LET best == CHOOSE i \in DOMAIN scored :
                         /\ \A j \in DOMAIN scored : ~TupleLess(scored[j], scored[i])
                         /\ \A j \in 1..(i - 1) : TupleLess(scored[i], scored[j])
             rest == SubSeq(scored, 1, best - 1) \o SubSeq(scored, best + 1, Len(scored))
         IN  << scored[best] >> \o SortReverse_Ascending(rest)

\* scored.sort(reverse=True): descending, equal elements keep their order
RECURSIVE SortReverse(_)
SortReverse(scored) ==
    IF scored = << >> THEN << >>
    ELSE LET best == CHOOSE i \in DOMAIN scored :
                         /\ \A j \in DOMAIN scored : ~TupleLess(scored[i], scored[j])
                         /\ \A j \in 1..(i - 1) : TupleLess(scored[j], scored[i])
             rest == SubSeq(scored, 1, best - 1) \o SubSeq(scored, best + 1, Len(scored))
         IN  << scored[best] >> \o SortReverse(rest)

\* the slice taken one element too long
SlicePrefix_OffByOne(seq, k) == SubSeq(seq, 1, Min(k + 1, Len(seq)))

\* seq[:k], also for a negative k
SlicePrefix(seq, k) ==
    IF k >= 0 THEN SubSeq(seq, 1, Min(k, Len(seq)))
    ELSE SubSeq(seq, 1, Max(Len(seq) + k, 0))

CandidatePoolSize(k, n) == Min(Max(MinPool, k * 3), n)

\* the tuples built with the vector rank itself, not its negation
Scored_PositiveRank(names, vec, tokens, texts, default) ==
    SubSeq([i \in DOMAIN names |->
               [b |-> BoostFor(names[i], tokens, texts),
                nvr |-> VecRank(vec, names[i], default),
                name |-> names[i]]], 1, Len(names))

Scored(names, vec, tokens, texts, default) ==
    SubSeq([i \in DOMAIN names |->
               [b |-> BoostFor(names[i], tokens, texts),
                nvr |-> 0 - VecRank(vec, names[i], default),
                name |-> names[i]]], 1, Len(names))

\* scored.sort(reverse=True); top_names = [name for (_b, _vr, name) in scored[:k]]
TopNames(scored, k) ==
    LET sorted == SlicePrefix(SortReverse(scored), k)
    IN  SubSeq([i \in DOMAIN sorted |-> sorted[i].name], 1, Len(sorted))

\* the injected embedding functions: embed_query either fails in the index
\* (a vector of another dimension) or ranks the stored documents in some order
Embeddings == {"insertion", "reverse", "bad_query"}

Reverse(seq) == SubSeq([i \in DOMAIN seq |-> seq[Len(seq) + 1 - i]], 1, Len(seq))

\* InMemoryVectorStore.similarity_search(query_text, k): the k most similar
\* documents, most similar first
SimilaritySearch(store, emb, k) ==
    LET ranked == IF emb = "reverse" THEN Reverse(store) ELSE store
    IN  SubSeq(ranked, 1, Min(k, Len(ranked)))

\* query_tools without the early return
HubEmpty_Never(n2t) == FALSE

\* if not self._name_to_tool: return []
HubEmpty(n2t) == n2t = << >>

QueryTools(query, k) ==
    /\ IF HubEmpty(name_to_tool)
       THEN last' = OpRecord("query", query, k, << >>, FALSE, FALSE, << >>, << >>, << >>)
       ELSE LET pool == CandidatePoolSize(k, Len(name_to_tool))
                searchOk == embedding # "bad_query"
            IN  \* except Exception: vec_results = []
                \E vec_results \in
                      { IF searchOk
                        THEN DocNames(SimilaritySearch(vectorstore, embedding, pool))
                        ELSE << >> } :
                \E query_text \in { NormalizeQuery(query) } :
                \E scored \in { Scored(DictKeyList(name_to_tool), vec_results,
                                        Tokenize(query_text), tool_text,
                                        Len(name_to_tool) + SentinelOffset) } :
                \E top_names \in { TopNames(scored, k) } :
                   last' = [OpRecord("query", query, k,
                                     << IndexCall("similarity_search", << >>, pool) >>,
                                     FALSE, ~searchOk, vec_results, top_names,
                                     SubSeq([i \in DOMAIN top_names |->
                                                DictGet(name_to_tool, top_names[i])],
                                            1, Len(top_names)))
                               EXCEPT !.text = query_text, !.scored = scored]
    /\ UNCHANGED <<name_to_tool, tool_text, vectorstore, toolName, embedding_model,
                   environ, embedding, ingested, task, calls>>

QWho == << "w", "h", "o", " ", "D", "u", "p", "?" >>
\* the query values callers pass to query_tools
Queries ==
    { PyStr(QWho),
      PyDict(<< Entry(KeyQuery, PyStr(<< " " >>)), Entry(KeyText, PyStr(<< "x" >>)) >>) }

KValues == {0 - 1} \cup (0..MaxK)

\* ------------------------------------------------------------------ spec
\* ------------------------------------------------------------- __init__
\* embedding_model=None
NoModel == "None"
ClsOpenAI == "OpenAIEmbeddings"
ClsSentenceTransformer == "SentenceTransformerEmbeddings"
ClsHash == "_HashEmbedding"

\* the module globals after the two guarded imports (TRUE: the class was
\* imported, FALSE: the name is None) and os.getenv("OPENAI_API_KEY")
Environ(openai, sentence, key) == [openai |-> openai, sentence |-> sentence, key |-> key]
Environs ==
    { Environ(o, st, key) :
        o \in BOOLEAN, st \in BOOLEAN,
        key \in { NoQuery, PyStr(<< >>), PyStr(<< " " >>), PyStr(<< "x" >>) } }

\* truthiness of os.getenv(...): a str that is not empty
Truthy(v) == v.t = "str" /\ v.s # << >>

\* the selection with the key tested for presence only
SelectEmbedding_KeyPresent(model, env) ==
    IF model # NoModel THEN model
    ELSE IF env.openai /\ env.key.t = "str" THEN ClsOpenAI
    ELSE IF env.sentence THEN ClsSentenceTransformer
    ELSE ClsHash

\* the if/elif/else of __init__ that settles self._embedding
SelectEmbedding(model, env) ==
    IF model # NoModel THEN model
    ELSE IF env.openai /\ Truthy(env.key) THEN ClsOpenAI
    ELSE IF env.sentence THEN ClsSentenceTransformer
    ELSE ClsHash

\* no call is in progress
Idle == [pc |-> "idle"]

\* the state after UnifiedToolHub(embedding_model=model) in the process env
Constructed(model, env) ==
    /\ name_to_tool = << >>
    /\ tool_text = << >>
    /\ vectorstore = << >>
    /\ toolName = [h \in Handles |-> << "t" >>]
    /\ embedding_model = model
    /\ environ = env
    /\ embedding = SelectEmbedding(model, env)
    /\ ingested = << >>
    /\ task = Idle
    /\ calls = << >>
    /\ last = OpRecord("init", NoQuery, 0, << >>, FALSE, FALSE, << >>, << >>, << >>)

\* the hubs of the tests: an embedding model is injected, in a process in
\* which the OpenAI class is imported and its key is set
Init ==
    \E model \in Embeddings :
        Constructed(model, Environ(TRUE, TRUE, PyStr(<< "x" >>)))

\* all_tools and query_tools assign no field of the hub, so a read-only
\* operation that follows another one sees the hub the first one saw: each is
\* taken right after the construction or the add_loaded_tools call that
\* produced the hub state, and add_loaded_tools is taken from every state
Built == last.op \in {"init", "add"}

Next ==
    \/ \E items \in Batches, embedOk \in BOOLEAN : AddLoadedTools(items, embedOk)
    \/ Built /\ AllTools
    \/ Built /\ \E query \in Queries, k \in KValues : QueryTools(query, k)

Spec == Init /\ [][Next]_vars

\* ------------------------------------------------------- ranking scenario
\* the hub of the boosting test: a search tool, a crypto tool and a third tool
\* whose name ends with _search and whose description mentions crypto
NameSdkSearch == << "s", "d", "k", "_", "_", "s", "e", "a", "r", "c", "h" >>
NameCcxtGetPrice == << "c", "c", "x", "t", "_", "g", "e", "t", "_", "p", "r", "i", "c", "e" >>
NameWebSearch == << "W", "e", "b", "_", "s", "e", "a", "r", "c", "h" >>

RankItems ==
    { LoadedTool(NameSdkSearch, WordSearch, "h1", SrcSdk, << "a" >>),
      LoadedTool(NameCcxtGetPrice, WordCrypto, "h2", SrcMcp, << "b" >>),
      LoadedTool(NameWebSearch, << "C", "r", "y", "p", "t", "o", " ", "b", "t", "c" >>,
                 "h3", SrcOpenapi, << "c" >>) }

RankBatches == UNION { [1..n -> RankItems] : n \in 0..MaxBatch }

QBest == << "w", "h", "o", " ", "i", "s", " ", "t", "h", "e", " ", "b", "e", "s", "t", "?" >>
QRates ==
    << "l", "a", "t", "e", "s", "t", " ", "b", "t", "c", " ", "e", "x", "c", "h", "a", "n",
       "g", "e", " ", "r", "a", "t", "e", "s" >>
QSearchTwice ==
    << "S", "e", "a", "r", "c", "h", ",", " ", "s", "e", "a", "r", "c", "h", " ", "B", "T",
       "C", " ", "p", "r", "i", "c", "e" >>

RankQueries == { PyStr(QBest), PyStr(QRates), PyStr(QSearchTwice) }

RankK == {1, MaxK}

\* a query changes no field of the hub, so an add_loaded_tools call after it
\* starts from the hub the query saw: the scenario takes every call from the
\* states an add_loaded_tools call (or the construction) produced
NextRank ==
    \/ Built /\ \E items \in RankBatches, embedOk \in BOOLEAN : AddLoadedTools(items, embedOk)
    \/ Built /\ \E query \in RankQueries, k \in RankK : QueryTools(query, k)

SpecRank == Init /\ [][NextRank]_vars

\* ------------------------------------------------- _normalize_query inputs
\* the values a mapping holds under one key: nothing (the key is missing), the
\* empty str, a blank str, a number, or a text of its own
Absent == [t |-> "absent", s |-> << >>, n |-> 0, items |-> << >>]
KeyValues(text) == { Absent, PyStr(<< >>), PyStr(<< " " >>), PyInt(7), PyStr(text) }

Message(v) == PyDict(<< Entry(KeyContent, v) >>)
\* the values under the messages key
MessagesValues ==
    { Absent,
      PyStr(<< "m" >>),
      PyList(<< >>),
      PyList(<< PyInt(1), PyInt(2), PyInt(3) >>),
      PyList(<< Message(PyStr(<< "q", "5" >>)) >>),
      PyList(<< Message(PyStr(<< "o", "l", "d" >>)), Message(PyStr(<< "n", "e", "w" >>)) >>),
      PyList(<< Message(PyStr(<< "o", "l", "d" >>)), Message(PyStr(<< " " >>)) >>),
      PyList(<< Message(PyStr(<< "o", "l", "d" >>)), Message(PyInt(5)) >>),
      PyList(<< Message(PyStr(<< "o", "l", "d" >>)), PyDict(<< >>) >>) }

\* the dict with the given values, a missing key left out
DictOf(vq, vt, vp, vc, vm) ==
    PyDict(SelectSeq(<< Entry(KeyQuery, vq), Entry(KeyText, vt), Entry(KeyPrompt, vp),
                        Entry(KeyContent, vc), Entry(KeyMessages, vm) >>,
                     LAMBDA e : e.val.t # "absent"))

PyValues ==
    { PyStr(<< >>), PyStr(<< " " >>), PyStr(<< "h", "e", "l", "l", "o" >>),
      PyInt(123), PyInt(0), PyInt(0 - 45), NoQuery,
      PyObj(<< >>),
      PyObj(<< Entry(KeyContent, PyStr(<< "q", "6" >>)) >>),
      PyObj(<< Entry(KeyContent, PyStr(<< " " >>)) >>),
      PyObj(<< Entry(KeyContent, PyInt(1)) >>) }
    \cup { DictOf(vq, vt, vp, vc, vm) :
             vq \in KeyValues(<< " ", "q" >>), vt \in KeyValues(<< "t" >>),
             vp \in KeyValues(<< "p" >>), vc \in KeyValues(<< "c", " " >>),
             vm \in MessagesValues }

InitNormalize == Init /\ embedding = "insertion"

\* _normalize_query reads and assigns no field of the hub: one call per input
NextNormalize == Built /\ \E query \in PyValues : NormalizeQueryCall(query)

SpecNormalize == InitNormalize /\ [][NextNormalize]_vars

\* ------------------------------------------------- construction scenario
\* every construction: with or without a model, in every process environment
InitConstruct ==
    \E model \in {NoModel} \cup Embeddings, env \in Environs : Constructed(model, env)

\* a hub constructed in any way takes tools one at a time and lists them
NextConstruct ==
    \/ Built /\ \E lt \in Items, embedOk \in BOOLEAN : AddLoadedTools(<< lt >>, embedOk)
    \/ Built /\ AllTools

SpecConstruct == InitConstruct /\ [][NextConstruct]_vars

\* --------------------------------------------------------- _HashEmbedding
DefaultDim == 128
TestDim == 16
MaxLen == 3        \* characters of a text handed to the hash embedding

\* the for loop of _embed from character i (one-based here, i - 1 in the
\* code) on: vec[(i + ord(ch)) % self.dim] += 1.0, bucket j kept at vec[j + 1]
RECURSIVE HashFold(_, _, _, _)
HashFold(text, i, vec, dim) ==
    IF i > Len(text) THEN vec
    ELSE HashFold(text, i + 1,
                  [vec EXCEPT ![(((i - 1) + Ord(text[i])) % dim) + 1] = @ + 1], dim)

\* _embed with the positions counted from one
HashEmbed_OneBased(text, dim) ==
    SubSeq([j \in 1..dim |->
               Cardinality({ i \in 1..Len(text) : ((i + Ord(text[i])) % dim) + 1 = j })],
           1, dim)

\* _HashEmbedding._embed
HashEmbed(text, dim) == HashFold(text, 1, SubSeq([j \in 1..dim |-> 0], 1, dim), dim)

\* _HashEmbedding.embed_documents
EmbedDocuments(texts, dim) ==
    SubSeq([t \in DOMAIN texts |-> HashEmbed(texts[t], dim)], 1, Len(texts))

HashAlphabet == { "a", "b", " " }
HashTexts == UNION { [1..n -> HashAlphabet] : n \in 0..MaxLen }
HashDims == { 1, 2, 3, TestDim, DefaultDim }
\* the lists handed to embed_documents: none, one text, a text with the empty
\* text, with itself or with its reverse
HashTextLists ==
    { << >> } \cup { << t >> : t \in HashTexts }
    \cup { << t, u >> : t \in HashTexts, u \in { << >>, << "a", "b" >> } }
    \cup { << t, t >> : t \in HashTexts }
    \cup { << t, Reverse(t) >> : t \in HashTexts }

\* _HashEmbedding(dim).embed_query(text)
EmbedQueryCall(text, dim) ==
    /\ last' = OpRecord("embed_query", PyStr(text), dim, << >>, FALSE, FALSE, << >>, << >>,
                        HashEmbed(text, dim))
    /\ UNCHANGED <<name_to_tool, tool_text, vectorstore, toolName, embedding_model,
                   environ, embedding, ingested, task, calls>>

\* _HashEmbedding(dim).embed_documents(texts)
EmbedDocumentsCall(texts, dim) ==
    /\ last' = OpRecord("embed_documents",
                        PyList(SubSeq([i \in DOMAIN texts |-> PyStr(texts[i])], 1, Len(texts))),
                        dim, << >>, FALSE, FALSE, << >>, << >>, EmbedDocuments(texts, dim))
    /\ UNCHANGED <<name_to_tool, tool_text, vectorstore, toolName, embedding_model,
                   environ, embedding, ingested, task, calls>>

\* the hub that fell back to the hash embedding
InitHash == Constructed(NoModel, Environ(FALSE, FALSE, NoQuery))

\* the embedding keeps no state between calls: one call per input
NextHash ==
    \/ Built /\ \E text \in HashTexts, dim \in HashDims : EmbedQueryCall(text, dim)
    \/ Built /\ \E texts \in HashTextLists, dim \in HashDims : EmbedDocumentsCall(texts, dim)

SpecHash == InitHash /\ [][NextHash]_vars

\* ---------------------------------------------------------------- loaders
MaxOps == 3        \* operations of one OpenAPI document
MaxSources == 2    \* sources of one SDKLoader, servers of one MCPLoader

\* str.upper() on one character: a..z (97..122) map to A..Z
UpperTable ==
    [ch \in Chars |->
        IF OrdTable[ch] >= 97 /\ OrdTable[ch] <= 122 THEN AsciiChars[OrdTable[ch] - 63] ELSE ch]
Upper(s) == SubSeq([i \in DOMAIN s |-> UpperTable[s[i]]], 1, Len(s))

\* the character class [a-zA-Z0-9_-]
IsNameChar(ch) ==
    \/ OrdTable[ch] >= 48 /\ OrdTable[ch] <= 57
    \/ OrdTable[ch] >= 65 /\ OrdTable[ch] <= 90
    \/ OrdTable[ch] >= 97 /\ OrdTable[ch] <= 122
    \/ ch \in { "_", "-" }
SanitizeTable == [ch \in Chars |-> IF IsNameChar(ch) THEN ch ELSE "_"]

\* re.sub(r"[^a-zA-Z0-9_-]", "_", value)
SanitizeName(value) == SubSeq([i \in DOMAIN value |-> SanitizeTable[value[i]]], 1, Len(value))

\* the tool object a loader builds: its visible name
ToolObj(name) == [name |-> name]

\* ---------------------------------------------------- OpenAPILoader.load
HttpMethods ==
    { << "g", "e", "t" >>, << "p", "o", "s", "t" >>, << "p", "u", "t" >>,
      << "d", "e", "l", "e", "t", "e" >>, << "p", "a", "t", "c", "h" >>,
      << "h", "e", "a", "d" >>, << "o", "p", "t", "i", "o", "n", "s" >> }

\* one entry of paths[path]: the method key and the operationId and summary of
\* the operation object (None when the key is missing)
Operation(path, method, op_id, summary) ==
    [path |-> path, method |-> method, op_id |-> op_id, summary |-> summary]

\* the name loop with an if in place of the while
UniqueName_SingleCheck(base_name, used_names) ==
    IF base_name \in used_names THEN base_name \o << "_", "2" >> ELSE base_name

\* name = base_name; suffix = 2; while name in used_names: ...
RECURSIVE UniqueFrom(_, _, _, _)
UniqueFrom(name, base_name, suffix, used_names) ==
    IF name \in used_names
    THEN UniqueFrom(base_name \o << "_" >> \o IntToStr(suffix), base_name, suffix + 1,
                    used_names)
    ELSE name
UniqueName(base_name, used_names) == UniqueFrom(base_name, base_name, 2, used_names)

\* one iteration of the loop over methods.items()
OpenapiStep(st, o, spec_url) ==
    IF Lower(o.method) \notin HttpMethods THEN st
    ELSE LET raw_name == IF Truthy(o.op_id) THEN o.op_id.s
                         ELSE Lower(o.method) \o << "_" >> \o o.path
             base_name == SanitizeName(raw_name)
             name == UniqueName(base_name, st.used_names)
             desc == IF Truthy(o.summary) THEN o.summary.s
                     ELSE Upper(o.method) \o << " " >> \o o.path
         IN  [used_names |-> st.used_names \cup { name },
              bases |-> Append(st.bases, base_name),
              loaded |-> Append(st.loaded,
                                LoadedTool(name, desc, ToolObj(name), SrcOpenapi, spec_url))]

RECURSIVE OpenapiFold(_, _, _)
OpenapiFold(st, ops, spec_url) ==
    IF ops = << >> THEN st
    ELSE OpenapiFold(OpenapiStep(st, Head(ops), spec_url), Tail(ops), spec_url)

\* OpenAPILoader(spec_url).load() on a document whose operations are ops;
\* bases keeps the base_name of every iteration that built a tool
OpenapiRun(ops, spec_url) ==
    OpenapiFold([used_names |-> { }, bases |-> << >>, loaded |-> << >>], ops, spec_url)
OpenapiLoaded(ops, spec_url) == OpenapiRun(ops, spec_url).loaded

PathA == << "/", "a" >>
PathB == << "/", "b" >>
MethodGet == << "g", "e", "t" >>
OpIdOp == PyStr(<< "o", "p" >>)
SpecUrl == << "u" >>

\* the operations of the documents: a repeated operationId, an operationId
\* that spells a suffixed name, operations without one whose method and path
\* spell the same name once sanitized, and a method the loader skips
Operations ==
    { Operation(PathA, MethodGet, OpIdOp, PyStr(<< "A" >>)),
      Operation(PathB, MethodGet, OpIdOp, PyStr(<< "B" >>)),
      Operation(PathB, << "p", "o", "s", "t" >>, PyStr(<< "o", "p", "_", "2" >>), NoQuery),
      Operation(PathA, << "G", "E", "T" >>, PyStr(<< >>), NoQuery),
      Operation(<< "_", "a" >>, MethodGet, NoQuery, NoQuery),
      Operation(PathA, << "t", "r", "a", "c", "e" >>, OpIdOp, NoQuery) }

\* paths and methods are dicts: a (path, method) pair occurs once, and the
\* operations of one path follow each other
IsDocument(ops) ==
    /\ \A i, j \in DOMAIN ops :
          ops[i].path = ops[j].path /\ ops[i].method = ops[j].method => i = j
    /\ \A i, j, m \in DOMAIN ops :
          i < j /\ j < m /\ ops[i].path = ops[m].path => ops[j].path = ops[i].path

Documents == { ops \in UNION { [1..n -> Operations] : n \in 0..MaxOps } : IsDocument(ops) }

LoaderInput(kind, items, n) == [t |-> kind, s |-> << >>, n |-> n, items |-> items]

OpenapiLoad(ops) ==
    /\ last' = OpRecord("openapi_load", LoaderInput("document", ops, 0), 0, << >>, FALSE,
                        FALSE, << >>, << >>, OpenapiLoaded(ops, SpecUrl))
    /\ UNCHANGED <<name_to_tool, tool_text, vectorstore, toolName, embedding_model,
                   environ, embedding, ingested, task, calls>>

\* -------------------------------------------------------- SDKLoader.load
\* one (attr_name, obj) pair of inspect.getmembers: self_first says that the
\* signature of obj is known and its first parameter is named self; doc is
\* inspect.getdoc(obj)
Member(name, self_first, doc) == [name |-> name, self_first |-> self_first, doc |-> doc]

\* one source after the if/elif/else that settles module and origin_name:
\* kind is "module", "class" or "instance"; origin_name is the module name,
\* the top-level package of a class, or the class name of an instance;
\* cls_name is source.__name__ of a class source
Source(kind, origin_name, cls_name, members) ==
    [kind |-> kind, origin_name |-> origin_name, cls_name |-> cls_name, members |-> members]

\* candidates.sort(key=lambda t: t[0]): stable, ascending by name
RECURSIVE InsertByName(_, _)
InsertByName(sorted, m) ==
    IF sorted = << >> THEN << m >>
    ELSE IF StrLess(m.name, sorted[Len(sorted)].name)
         THEN Append(InsertByName(SubSeq(sorted, 1, Len(sorted) - 1), m), sorted[Len(sorted)])
         ELSE Append(sorted, m)
RECURSIVE SortByName(_)
SortByName(ms) ==
    IF ms = << >> THEN << >>
    ELSE InsertByName(SortByName(SubSeq(ms, 1, Len(ms) - 1)), ms[Len(ms)])

\* the loop over inspect.getmembers, the sort and the optional truncation
Candidates(src, exclude_private, max_tools) ==
    LET kept == SelectSeq(src.members,
                          LAMBDA m : ~(exclude_private /\ m.name # << >> /\ m.name[1] = "_"))
        sorted == SortByName(kept)
    IN  IF max_tools.t = "int" THEN SlicePrefix(sorted, max_tools.n) ELSE sorted

\* unique_name = base_name; suffix_index = 2; while unique_name in used_names: ...
RECURSIVE UniqueToolFrom(_, _, _, _)
UniqueToolFrom(unique_name, base_name, suffix_index, used_names) ==
    IF unique_name \in used_names
    THEN UniqueToolFrom(base_name \o << "_" >> \o IntToStr(suffix_index), base_name,
                        suffix_index + 1, used_names)
    ELSE unique_name
UniqueToolName(base_name, used_names) == UniqueToolFrom(base_name, base_name, 2, used_names)

DunderSep == << "_", "_" >>
FromSep == << " ", "f", "r", "o", "m", " " >>

\* one iteration of the loop over candidates: the instance-method path of a
\* class source, or the default path
SdkStep(st, src, m) ==
    LET instance_method == src.kind = "class" /\ m.self_first
        raw_name == IF instance_method
                    THEN src.origin_name \o DunderSep \o src.cls_name \o DunderSep \o m.name
                    ELSE src.origin_name \o DunderSep \o m.name
        base_name == SanitizeName(raw_name)
        unique_name == UniqueToolName(base_name, st.used_names)
        description ==
            IF Truthy(m.doc) THEN m.doc.s
            ELSE IF instance_method
                 THEN << "M", "e", "t", "h", "o", "d", " " >> \o src.cls_name \o << "." >>
                      \o m.name \o FromSep \o src.origin_name
                 ELSE << "F", "u", "n", "c", "t", "i", "o", "n", " " >> \o m.name
                      \o FromSep \o src.origin_name
    IN  [used_names |-> st.used_names \cup { unique_name },
         bases |-> Append(st.bases, base_name),
         loaded |-> Append(st.loaded,
                           LoadedTool(ToolObj(unique_name).name, description,
                                      ToolObj(unique_name), SrcSdk, src.origin_name))]

RECURSIVE SdkCandidatesFold(_, _, _)
SdkCandidatesFold(st, src, cands) ==
    IF cands = << >> THEN st
    ELSE SdkCandidatesFold(SdkStep(st, src, Head(cands)), src, Tail(cands))

\* the loop over self._sources: used_names and loaded live across the sources
RECURSIVE SdkFold(_, _, _, _)
SdkFold(st, sources, exclude_private, max_tools) ==
    IF sources = << >> THEN st
    ELSE SdkFold(SdkCandidatesFold(st, Head(sources),
                                   Candidates(Head(sources), exclude_private, max_tools)),
                 Tail(sources), exclude_private, max_tools)

\* SDKLoader(sources, exclude_private=..., max_tools_per_module=...).load()
SdkRun(sources, exclude_private, max_tools) ==
    SdkFold([used_names |-> { }, bases |-> << >>, loaded |-> << >>], sources,
            exclude_private, max_tools)
SdkLoaded(sources, exclude_private, max_tools) ==
    SdkRun(sources, exclude_private, max_tools).loaded

FuncF == Member(<< "f" >>, FALSE, NoQuery)
FuncG == Member(<< "g" >>, FALSE, PyStr(<< "G" >>))
FuncPrivate == Member(<< "_", "p" >>, FALSE, NoQuery)
MethodF == Member(<< "f" >>, TRUE, NoQuery)

\* the sources: a module m, an instance of a class named m, a class K of the
\* package m with an instance method and a static one, and two modules whose
\* names are the same once sanitized
Sources ==
    { Source("module", << "m" >>, << >>, << FuncPrivate, FuncF, FuncG >>),
      Source("instance", << "m" >>, << >>, << FuncPrivate, FuncF >>),
      Source("class", << "m" >>, << "K" >>, << MethodF, FuncG >>),
      Source("module", << "a", ".", "b" >>, << >>, << FuncF >>),
      Source("module", << "a", "_", "b" >>, << >>, << FuncF >>) }

\* a loader may be given the same source twice
SourceLists == UNION { [1..n -> Sources] : n \in 0..MaxSources }
MaxToolsValues == { NoQuery, PyInt(1) }

SdkLoad(sources, exclude_private, max_tools) ==
    /\ last' = OpRecord("sdk_load",
                        LoaderInput("sources",
                                    << sources, << exclude_private >>, << max_tools >> >>, 0),
                        0, << >>, FALSE, FALSE, << >>, << >>,
                        SdkLoaded(sources, exclude_private, max_tools))
    /\ UNCHANGED <<name_to_tool, tool_text, vectorstore, toolName, embedding_model,
                   environ, embedding, ingested, task, calls>>

\* -------------------------------------------------------- MCPLoader.aload
WordCcxt == << "c", "c", "x", "t" >>
WordMindmap == << "m", "i", "n", "d", "m", "a", "p" >>
WordMemory == << "m", "e", "m", "o", "r", "y" >>
WordMcp == << "m", "c", "p" >>
WordTool == << "t", "o", "o", "l" >>
DefaultDescription == << "M", "C", "P", " ", "t", "o", "o", "l" >>

\* one tool of client.get_tools(server_name=...): its name and description
McpTool(name, description) == [name |-> name, description |-> description]

\* one entry of connections with what its server answers: the key, the
\* command and url of the config (None when missing) and the tools fetched
Server(server_name, command, url, tools) ==
    [server_name |-> server_name, command |-> command, url |-> url, tools |-> tools]

\* " ".join(...) of a list of strings
RECURSIVE JoinSpace(_)
JoinSpace(parts) ==
    IF parts = << >> THEN << >>
    ELSE IF Len(parts) = 1 THEN parts[1]
    ELSE parts[1] \o << " " >> \o JoinSpace(Tail(parts))

\* str.strip("_")
RECURSIVE StripUnderscores(_)
StripUnderscores(s) ==
    IF s = << >> THEN s
    ELSE IF s[1] = "_" THEN StripUnderscores(Tail(s))
    ELSE IF s[Len(s)] = "_" THEN StripUnderscores(SubSeq(s, 1, Len(s) - 1))
    ELSE s

\* the prefix with the sanitized server name taken as it is, not stripped
McpPrefix_NoStrip(srv) ==
    LET given == SelectSeq(<< PyStr(srv.server_name), srv.command, srv.url >>, Truthy)
        cfg_text == Lower(JoinSpace(SubSeq([i \in DOMAIN given |-> given[i].s], 1, Len(given))))
    IN  IF IsSubstr(WordCcxt, cfg_text) THEN WordCcxt
        ELSE IF IsSubstr(WordMindmap, cfg_text) \/ IsSubstr(WordMemory, cfg_text)
             THEN WordMindmap
        ELSE IF SanitizeName(srv.server_name) # << >>
             THEN SanitizeName(srv.server_name)
        ELSE WordMcp

\* the prefix of one server: ccxt, mindmap, or the sanitized server name
McpPrefix(srv) ==
    LET given == SelectSeq(<< PyStr(srv.server_name), srv.command, srv.url >>, Truthy)
        cfg_text == Lower(JoinSpace(SubSeq([i \in DOMAIN given |-> given[i].s], 1, Len(given))))
    IN  IF IsSubstr(WordCcxt, cfg_text) THEN WordCcxt
        ELSE IF IsSubstr(WordMindmap, cfg_text) \/ IsSubstr(WordMemory, cfg_text)
             THEN WordMindmap
        ELSE IF StripUnderscores(SanitizeName(srv.server_name)) # << >>
             THEN StripUnderscores(SanitizeName(srv.server_name))
        ELSE WordMcp

\* _SyncProxyTool(name=..., inner=t): model_post_init takes the name of the
\* inner tool when no name was given
WrappedName(name, inner_name) == IF name # << >> THEN name ELSE inner_name

\* one iteration of the loop over the tools of a server
McpStep(loaded, srv, prefix, t) ==
    LET desc == IF t.description # << >> THEN t.description ELSE DefaultDescription
        base_name == IF t.name # << >> THEN t.name ELSE WordTool
        prefixed_name == IF ~StartsWith(base_name, prefix)
                         THEN prefix \o << "_" >> \o base_name
                         ELSE base_name
        wrapped == ToolObj(WrappedName(prefixed_name, t.name))
    IN  Append(loaded, LoadedTool(wrapped.name, desc, wrapped, SrcMcp, srv.server_name))

RECURSIVE McpToolsFold(_, _, _, _)
McpToolsFold(loaded, srv, prefix, tools) ==
    IF tools = << >> THEN loaded
    ELSE McpToolsFold(McpStep(loaded, srv, prefix, Head(tools)), srv, prefix, Tail(tools))

\* the loop over self._connections.items()
RECURSIVE McpFold(_, _)
McpFold(loaded, servers) ==
    IF servers = << >> THEN loaded
    ELSE McpFold(McpToolsFold(loaded, Head(servers), McpPrefix(Head(servers)),
                              Head(servers).tools),
                 Tail(servers))

\* await MCPLoader(connections).aload() when every fetch succeeds
McpLoaded(servers) == McpFold(<< >>, servers)

ToolPrice == McpTool(<< "p", "r", "i", "c", "e" >>, << "P" >>)
ToolCcxtPrice == McpTool(WordCcxt \o << "_", "p", "r", "i", "c", "e" >>, << >>)
ToolUnnamed == McpTool(<< >>, << >>)

\* what a server answers: nothing, one tool, the same name twice, a name that
\* carries the prefix already next to one that does not, a tool without a name
ToolLists ==
    { << >>, << ToolPrice >>, << ToolPrice, ToolPrice >>, << ToolCcxtPrice, ToolPrice >>,
      << ToolUnnamed >> }

\* the servers by key, command and url: two that map to ccxt (by name, by an
\* upper-case command), one that maps to mindmap by its url, one named by a
\* dotted name and one whose sanitized name is underscores only
ServerConfigs ==
    { Server(WordCcxt, NoQuery, NoQuery, << >>),
      Server(<< "x" >>, PyStr(<< "C", "C", "X", "T" >>), NoQuery, << >>),
      Server(<< "m" >>, NoQuery, PyStr(WordMemory), << >>),
      Server(<< ".", "a", ".", "b" >>, PyStr(<< >>), NoQuery, << >>),
      Server(<< "." >>, NoQuery, NoQuery, << >>) }

Servers == { [c EXCEPT !.tools = tools] : c \in ServerConfigs, tools \in ToolLists }

\* connections is a dict: a server name occurs once
Connections ==
    { servers \in UNION { [1..n -> Servers] : n \in 0..MaxSources } :
        \A i, j \in DOMAIN servers :
            servers[i].server_name = servers[j].server_name => i = j }

Call(fn, arg) == [fn |-> fn, arg |-> arg]

\* the client object: whether it has a callable aclose, and whether awaiting
\* it raises
McpClient(has_aclose, aclose_raises) ==
    [has_aclose |-> has_aclose, aclose_raises |-> aclose_raises]
McpClients == { McpClient(FALSE, FALSE), McpClient(TRUE, FALSE), McpClient(TRUE, TRUE) }

\* aload with the close after the loop instead of in a finally block
McpARun_CloseOnSuccess(servers, failAt, client) ==
    LET raised == failAt # 0
        asked == IF raised THEN failAt ELSE Len(servers)
        loaded == McpLoaded(SubSeq(servers, 1, IF raised THEN failAt - 1 ELSE Len(servers)))
    IN  [calls |-> << Call("MultiServerMCPClient", << >>) >>
                   \o SubSeq([i \in 1..asked |-> Call("get_tools", servers[i].server_name)],
                             1, asked)
                   \o (IF client.has_aclose /\ ~raised THEN << Call("aclose", << >>) >>
                       ELSE << >>),
         raised |-> raised,
         result |-> IF raised THEN << >> ELSE loaded]

\* the whole of aload: the client is made, get_tools is awaited server by
\* server until one raises (failAt is its position, 0 when none does), the
\* finally block awaits aclose when the client has one and swallows what it
\* raises, and the list is returned unless get_tools raised
McpARun(servers, failAt, client) ==
    LET raised == failAt # 0
        asked == IF raised THEN failAt ELSE Len(servers)
        loaded == McpLoaded(SubSeq(servers, 1, IF raised THEN failAt - 1 ELSE Len(servers)))
    IN  [calls |-> << Call("MultiServerMCPClient", << >>) >>
                   \o SubSeq([i \in 1..asked |-> Call("get_tools", servers[i].server_name)],
                             1, asked)
                   \o (IF client.has_aclose THEN << Call("aclose", << >>) >> ELSE << >>),
         raised |-> raised,
         result |-> IF raised THEN << >> ELSE loaded]

\* the input of one aload: the servers, the failing position, the client
McpInput(servers, failAt, client) ==
    LoaderInput("connections", << servers, << failAt >>, << client >> >>, 0)

McpALoadCompleted(op, servers, failAt, client) ==
    \E run \in { McpARun(servers, failAt, client) } :
        /\ last' = OpRecord(op, McpInput(servers, failAt, client), 0, << >>, run.raised,
                            FALSE, << >>, << >>, run.result)
        /\ calls' = calls \o run.calls
        /\ UNCHANGED <<name_to_tool, tool_text, vectorstore, toolName, embedding_model,
                       environ, embedding, ingested, task>>

\* await MCPLoader(connections).aload()
McpALoad(servers, failAt, client) == McpALoadCompleted("mcp_aload", servers, failAt, client)

\* a loader keeps nothing between two load calls and touches no hub: one load
\* per input, next to a hub that was just constructed
NextLoad ==
    \/ Built /\ \E ops \in Documents : OpenapiLoad(ops)
    \/ Built /\ \E sources \in SourceLists, exclude_private \in BOOLEAN,
                   max_tools \in MaxToolsValues :
                  SdkLoad(sources, exclude_private, max_tools)
    \/ Built /\ \E servers \in Connections, client \in McpClients :
                  \E failAt \in 0..Len(servers) : McpALoad(servers, failAt, client)

SpecLoad == InitNormalize /\ [][NextLoad]_vars

\* ---------------------------------------------------------------- builder
\* one element of sources with what its loader answers: shape is "str",
\* "dict" or "obj", text the value of a str, items the list the loader
\* returns, fails says that the loader raises instead
BuildSource(id, shape, text, items, fails) ==
    [id |-> id, shape |-> shape, text |-> text, items |-> items, fails |-> fails]

HttpPrefix == << "h", "t", "t", "p", ":", "/", "/" >>
HttpsPrefix == << "h", "t", "t", "p", "s", ":", "/", "/" >>

\* _is_url
IsUrl(value) == StartsWith(value, HttpPrefix) \/ StartsWith(value, HttpsPrefix)

\* the routing with the dict test first and every str sent to the SDK loader
Route_NoUrl(src) ==
    IF src.shape = "dict" THEN "mcp" ELSE "sdk"

\* the if/elif chain of abuild_tool_hub: the loader a source is handed to
Route(src) ==
    IF src.shape = "str" /\ IsUrl(src.text) THEN "openapi"
    ELSE IF src.shape = "str" THEN "sdk"
    ELSE IF src.shape = "dict" THEN "mcp"
    ELSE "sdk"

\* hub.add_loaded_tools(loader.load()) for one source: the loader is called,
\* and unless it raises its list is ingested and submitted to the index; an
\* exception of the loader or of the index leaves the loop
LoadAndAdd(st, src, embedOk) ==
    LET called == Append(st.calls, Call(Route(src), src.id))
    IN  IF src.fails THEN [st EXCEPT !.calls = called, !.raised = TRUE]
        ELSE LET hub == IngestAll([n2t |-> st.n2t, text |-> st.text, names |-> st.names,
                                   documents |-> << >>, hist |-> st.hist], src.items)
                 sub == SubmitDocuments(st.store, hub.documents, embedOk)
             IN  [n2t |-> hub.n2t, text |-> hub.text, names |-> hub.names,
                  hist |-> hub.hist, store |-> sub.store, calls |-> called,
                  indexCalls |-> st.indexCalls \o sub.calls, raised |-> sub.raised]

\* one loop over sources with all sources ingested in list order
RECURSIVE BuildPass_InOrder(_, _, _, _)
BuildPass_InOrder(st, sources, mcp, embedOk) ==
    IF sources = << >> \/ st.raised THEN st
    ELSE IF mcp THEN st
    ELSE BuildPass_InOrder(LoadAndAdd(st, Head(sources), embedOk), Tail(sources), mcp,
                           embedOk)

\* one of the two loops over sources: the first takes every source that is
\* not routed to the MCP loader, the second the dicts
RECURSIVE BuildPass(_, _, _, _)
BuildPass(st, sources, mcp, embedOk) ==
    IF sources = << >> \/ st.raised THEN st
    ELSE IF (Route(Head(sources)) = "mcp") = mcp
         THEN BuildPass(LoadAndAdd(st, Head(sources), embedOk), Tail(sources), mcp, embedOk)
         ELSE BuildPass(st, Tail(sources), mcp, embedOk)

\* the body of abuild_tool_hub after the hub was constructed
BuildRun(sources, names, embedOk) ==
    BuildPass(BuildPass([n2t |-> << >>, text |-> << >>, names |-> names, hist |-> << >>,
                         store |-> << >>, calls |-> << Call("UnifiedToolHub", << >>) >>,
                         indexCalls |-> << >>, raised |-> FALSE],
                        sources, FALSE, embedOk),
              sources, TRUE, embedOk)

BuildHandles == { "b1", "b2", "b3", "b4", "b5", "b6", "b7" }

BuildItem(h, s, o) == LoadedTool(NameDup, << >>, h, s, o)

\* the sources: two OpenAPI urls, a module name, a module name that starts
\* with http, an object, two MCP connection dicts, and a module and a dict
\* whose loaders raise; every tool is named dup
BuildSources ==
    { BuildSource(<< "1" >>, "str", HttpPrefix \o << "u" >>,
                  << BuildItem("b1", SrcOpenapi, << "1" >>) >>, FALSE),
      BuildSource(<< "2" >>, "str", HttpsPrefix \o << "u" >>,
                  << BuildItem("b2", SrcOpenapi, << "2" >>) >>, FALSE),
      BuildSource(<< "3" >>, "str", << "m", "a", "t", "h" >>,
                  << BuildItem("b3", SrcSdk, << "3" >>) >>, FALSE),
      BuildSource(<< "4" >>, "str", << "h", "t", "t", "p", "x" >>,
                  << BuildItem("b4", SrcSdk, << "4" >>) >>, FALSE),
      BuildSource(<< "5" >>, "obj", << >>,
                  << BuildItem("b5", SrcSdk, << "5" >>) >>, FALSE),
      BuildSource(<< "6" >>, "dict", << >>,
                  << BuildItem("b6", SrcMcp, << "6" >>) >>, FALSE),
      BuildSource(<< "7" >>, "dict", << >>,
                  << BuildItem("b7", SrcMcp, << "7" >>) >>, FALSE),
      BuildSource(<< "8" >>, "str", << "b", "a", "d" >>, << >>, TRUE),
      BuildSource(<< "9" >>, "dict", << >>, << >>, TRUE) }

\* the lists handed to the builder: no source twice
BuildSourceLists ==
    { sources \in UNION { [1..n -> BuildSources] : n \in 0..MaxSources } :
        \A i, j \in DOMAIN sources : sources[i] = sources[j] => i = j }

NoHub == "no hub"
RuntimeError == PyStr(<< "R", "u", "n", "t", "i", "m", "e", "E", "r", "r", "o", "r" >>)
HubHandle == PyObj(<< >>)

\* a thread before it calls an entry point: it has a running event loop or
\* not, and no hub exists
Started(loop_running) ==
    /\ name_to_tool = << >>
    /\ tool_text = << >>
    /\ vectorstore = << >>
    /\ toolName = [h \in BuildHandles |-> << "t" >>]
    /\ embedding_model = NoModel
    /\ environ = Environ(TRUE, TRUE, PyStr(<< "x" >>))
    /\ embedding = NoHub
    /\ ingested = << >>
    /\ task = [pc |-> "idle", loop_running |-> loop_running]
    /\ calls = << >>
    /\ last = OpRecord("start", NoQuery, 0, << >>, FALSE, FALSE, << >>, << >>, << >>)

\* the coroutine abuild_tool_hub(sources, llm=..., embedding_model=model) run
\* to completion: the hub is constructed, the two loops run, and the hub is
\* returned unless a loader or the index raised
ABuildCompleted(op, sources, model, embedOk) ==
    \E run \in { BuildRun(sources, toolName, embedOk) } :
        /\ name_to_tool' = run.n2t
        /\ tool_text' = run.text
        /\ vectorstore' = run.store
        /\ toolName' = run.names
        /\ embedding_model' = model
        /\ embedding' = SelectEmbedding(model, environ)
        /\ ingested' = run.hist
        /\ calls' = calls \o run.calls
        /\ last' = OpRecord(op, LoaderInput("sources", sources, 0), 0, run.indexCalls,
                            run.raised, FALSE, << >>, << >>,
                            IF run.raised THEN << >> ELSE << HubHandle >>)
        /\ UNCHANGED <<environ, task>>

\* await abuild_tool_hub(...) from a coroutine of the running loop
ABuildToolHub(sources, model, embedOk) ==
    /\ task.loop_running
    /\ ABuildCompleted("abuild", sources, model, embedOk)

\* build_tool_hub without the test for a running loop
BuildToolHub_NoLoopTest(sources, model, embedOk) ==
    ABuildCompleted("build", sources, model, embedOk)

\* build_tool_hub(sources, llm=..., embedding_model=model)
BuildToolHub(sources, model, embedOk) ==
    IF task.loop_running
    THEN /\ last' = OpRecord("build", LoaderInput("sources", sources, 0), 0, << >>, TRUE,
                             FALSE, << >>, << >>, << RuntimeError >>)
         /\ UNCHANGED <<name_to_tool, tool_text, vectorstore, toolName, embedding_model,
                        environ, embedding, ingested, task, calls>>
    ELSE ABuildCompleted("build", sources, model, embedOk)

\* MCPLoader(connections).load() without the test for a running loop
McpLoad_NoLoopTest(servers, failAt, client) ==
    McpALoadCompleted("mcp_load", servers, failAt, client)

\* MCPLoader(connections).load()
McpLoad(servers, failAt, client) ==
    IF task.loop_running
    THEN /\ last' = OpRecord("mcp_load", McpInput(servers, failAt, client), 0, << >>, TRUE,
                             FALSE, << >>, << >>, << RuntimeError >>)
         /\ UNCHANGED <<name_to_tool, tool_text, vectorstore, toolName, embedding_model,
                        environ, embedding, ingested, task, calls>>
    ELSE McpALoadCompleted("mcp_load", servers, failAt, client)

InitEntry == \E loop_running \in BOOLEAN : Started(loop_running)

\* the servers of the loads through the synchronous entry point
EntryConnections == { servers \in Connections : Len(servers) <= 1 }

\* each entry point is called once, by a thread that made no call before
NextEntry ==
    \/ last.op = "start" /\ \E sources \in BuildSourceLists, model \in {NoModel, "insertion"},
                                embedOk \in BOOLEAN :
                               ABuildToolHub(sources, model, embedOk)
    \/ last.op = "start" /\ \E sources \in BuildSourceLists, model \in {NoModel, "insertion"},
                                embedOk \in BOOLEAN :
                               BuildToolHub(sources, model, embedOk)
    \/ last.op = "start" /\ \E servers \in EntryConnections, client \in McpClients :
                               \E failAt \in 0..Len(servers) :
                                   McpLoad(servers, failAt, client)

SpecEntry == InitEntry /\ [][NextEntry]_vars

\* ------------------------------------- add_loaded_tools, statement by statement
\* two threads call add_loaded_tools on the same hub; the interpreter runs one
\* statement of one thread at a time
Threads == { 1, 2 }

\* the locals of one execution and its position: idle (not called yet), if
\* (line 127), while (line 130), store (lines 134-138), text (lines 139-150),
\* submit (lines 151-152), done (returned)
Frame(pc, new_items, tool_name, base, idx, documents) ==
    [pc |-> pc, new_items |-> new_items, tool_name |-> tool_name, base |-> base,
     idx |-> idx, documents |-> documents]

\* a step of a thread for the history: the call, a membership test that found
\* the name free, a store, the return
DictCall(fn, t, name, found) == Call(fn, [thread |-> t, name |-> name, found |-> found])

\* the position at the head of the for loop: the next item, or the submission
NextItem(new_items, documents) ==
    IF new_items = << >> THEN Frame("submit", << >>, << >>, << >>, 0, documents)
    ELSE Frame("if", new_items, Head(new_items).name, << >>, 0, documents)

\* lines 121-126: the call, new_items = list(items), documents = []
AddBegin(t, items) ==
    /\ task[t].pc = "idle"
    /\ task' = [task EXCEPT ![t] = NextItem(items, << >>)]
    /\ calls' = Append(calls, DictCall("add_loaded_tools", t, << >>, FALSE))
    /\ UNCHANGED <<name_to_tool, tool_text, vectorstore, toolName, embedding_model,
                   environ, embedding, ingested, last>>

\* the first membership test left out: the name is stored as it came
AddIf_NoTest(t) ==
    /\ task[t].pc = "if"
    /\ task' = [task EXCEPT ![t].pc = "store"]
    /\ calls' = Append(calls, DictCall("contains", t, task[t].tool_name, FALSE))
    /\ UNCHANGED <<name_to_tool, tool_text, vectorstore, toolName, embedding_model,
                   environ, embedding, ingested, last>>

\* line 127: if tool_name in self._name_to_tool
AddIf(t) ==
    /\ task[t].pc = "if"
    /\ \E found \in { task[t].tool_name \in DictKeys(name_to_tool) } :
         /\ task' = [task EXCEPT ![t] =
                IF found
                THEN [@ EXCEPT !.pc = "while", !.base = task[t].tool_name, !.idx = 2]
                ELSE [@ EXCEPT !.pc = "store"]]
         /\ calls' = IF found THEN calls
                     ELSE Append(calls, DictCall("contains", t, task[t].tool_name, found))
    /\ UNCHANGED <<name_to_tool, tool_text, vectorstore, toolName, embedding_model,
                   environ, embedding, ingested, last>>

\* lines 130-132: while tool_name in self._name_to_tool: the next suffix
AddWhile(t) ==
    /\ task[t].pc = "while"
    /\ \E found \in { task[t].tool_name \in DictKeys(name_to_tool) } :
         /\ task' = [task EXCEPT ![t] =
                IF found
                THEN [@ EXCEPT !.tool_name = task[t].base \o << "_" >> \o IntToStr(task[t].idx),
                               !.idx = task[t].idx + 1]
                ELSE [@ EXCEPT !.pc = "store"]]
         /\ calls' = IF found THEN calls
                     ELSE Append(calls, DictCall("contains", t, task[t].tool_name, found))
    /\ UNCHANGED <<name_to_tool, tool_text, vectorstore, toolName, embedding_model,
                   environ, embedding, ingested, last>>

\* lines 134-138: the rename and self._name_to_tool[tool_name] = lt.tool
AddStore(t) ==
    /\ task[t].pc = "store"
    /\ \E lt \in { Head(task[t].new_items) } :
         /\ toolName' = SetName(toolName, lt.tool, task[t].tool_name)
         /\ name_to_tool' = DictSet(name_to_tool, task[t].tool_name, lt.tool)
         /\ ingested' = Append(ingested, [item |-> lt, key |-> task[t].tool_name])
    /\ task' = [task EXCEPT ![t].pc = "text"]
    /\ calls' = Append(calls, DictCall("setitem", t, task[t].tool_name, FALSE))
    /\ UNCHANGED <<tool_text, vectorstore, embedding_model, environ, embedding, last>>

\* lines 139-150: the text, the document, the text cache; then the next item
AddText(t) ==
    /\ task[t].pc = "text"
    /\ \E lt \in { Head(task[t].new_items) } :
       \E text \in { ComposeText(task[t].tool_name, lt) } :
         /\ tool_text' = DictSet(tool_text, task[t].tool_name, text)
         /\ task' = [task EXCEPT ![t] =
                NextItem(Tail(task[t].new_items),
                         Append(task[t].documents, Document(text, task[t].tool_name, lt)))]
    /\ UNCHANGED <<name_to_tool, vectorstore, toolName, embedding_model, environ,
                   embedding, ingested, calls, last>>

\* lines 151-152 and the return
AddSubmit(t, embedOk) ==
    /\ task[t].pc = "submit"
    /\ \E sub \in { SubmitDocuments(vectorstore, task[t].documents, embedOk) } :
         /\ (sub.calls = << >> => embedOk)
         /\ vectorstore' = sub.store
         /\ last' = OpRecord("add", NoQuery, t, sub.calls, sub.raised, FALSE,
                             << >>, << >>, << >>)
    /\ task' = [task EXCEPT ![t] = Frame("done", << >>, << >>, << >>, 0, << >>)]
    /\ calls' = Append(calls, DictCall("return", t, << >>, FALSE))
    /\ UNCHANGED <<name_to_tool, tool_text, toolName, embedding_model, environ,
                   embedding, ingested>>

\* the batches of the two threads: the first thread brings a tool named dup
\* or one named dup_2, the second brings one or two tools named dup
RaceBatches(t) ==
    IF t = 1
    THEN { << LoadedTool(NameDup, << >>, "h1", SrcSdk, << "a" >>) >>,
           << LoadedTool(NameDup2, << "x" >>, "h2", SrcMcp, << "b" >>) >> }
    ELSE { << LoadedTool(NameDup, << "w", "h", "o" >>, "h3", SrcOpenapi, << "c" >>) >>,
           << LoadedTool(NameDup, << "w", "h", "o" >>, "h3", SrcOpenapi, << "c" >>),
              LoadedTool(NameDup, << >>, "b1", SrcSdk, << "d" >>) >> }

\* a hub that was just constructed, and two threads that made no call yet
InitRace ==
    /\ name_to_tool = << >>
    /\ tool_text = << >>
    /\ vectorstore = << >>
    /\ toolName = [h \in Handles \cup BuildHandles |-> << "t" >>]
    /\ embedding_model = "insertion"
    /\ environ = Environ(TRUE, TRUE, PyStr(<< "x" >>))
    /\ embedding = "insertion"
    /\ ingested = << >>
    /\ task = [t \in Threads |-> Frame("idle", << >>, << >>, << >>, 0, << >>)]
    /\ calls = << >>
    /\ last = OpRecord("init", NoQuery, 0, << >>, FALSE, FALSE, << >>, << >>, << >>)

\* the index accepts every submission here
NextRace ==
    \/ \E t \in Threads : \E items \in RaceBatches(t) : AddBegin(t, items)
    \/ \E t \in Threads : AddIf(t)
    \/ \E t \in Threads : AddWhile(t)
    \/ \E t \in Threads : AddStore(t)
    \/ \E t \in Threads : AddText(t)
    \/ \E t \in Threads, embedOk \in {TRUE} : AddSubmit(t, embedOk)

SpecRace == InitRace /\ [][NextRace]_vars

\* ---------------------------------------------------------------- claims
KeysBefore(i) == { ingested[j].key : j \in 1..(i - 1) }
SuffixedName(c, n) == c \o << "_" >> \o IntToStr(n)

\* C1: every ingested item is registered under a key of its own: the keys of
\* the items are pairwise distinct, no registration is overwritten,
\* len(name_to_tool) is the number of items ingested, and all_tools() returns
\* one handle per ingested item.
C1_OwnKeyPerItem ==
    /\ Len(name_to_tool) = Len(ingested)
    /\ Cardinality(DictKeys(name_to_tool)) = Len(name_to_tool)
    /\ \A i, j \in DOMAIN ingested : i # j => ingested[i].key # ingested[j].key
    /\ \A i \in DOMAIN ingested :
         /\ i \in DOMAIN name_to_tool
         /\ name_to_tool[i].key = ingested[i].key
         /\ name_to_tool[i].val = ingested[i].item.tool
    /\ (last.op = "all" =>
          /\ Len(last.result) = Len(ingested)
          /\ \A i \in DOMAIN ingested : last.result[i] = ingested[i].item.tool)

\* three items, two of them with the same candidate name, listed by all_tools()
C1_Witness ==
    /\ last.op = "all"
    /\ Len(ingested) = 3
    /\ \E i, j \in DOMAIN ingested : i < j /\ ingested[i].item.name = ingested[j].item.name

\* C2: an item whose candidate name c is not among the keys present keeps c;
\* otherwise it gets c + "_" + n for the smallest n >= 2 whose name is free,
\* the suffix always appended to c; three items named dup added to an empty
\* hub become dup, dup_2, dup_3 in that order.
C2_SmallestFreeSuffix ==
    /\ \A i \in DOMAIN ingested :
         LET c == ingested[i].item.name
             K == KeysBefore(i)
         IN  IF c \notin K THEN ingested[i].key = c
             ELSE \E n \in 2..(i + 1) :
                    /\ ingested[i].key = SuffixedName(c, n)
                    /\ SuffixedName(c, n) \notin K
                    /\ \A m \in 2..(n - 1) : SuffixedName(c, m) \in K
    /\ (Len(ingested) >= 3 /\ \A i \in 1..3 : ingested[i].item.name = NameDup) =>
          /\ ingested[1].key = << "d", "u", "p" >>
          /\ ingested[2].key = << "d", "u", "p", "_", "2" >>
          /\ ingested[3].key = << "d", "u", "p", "_", "3" >>

\* three items named dup were added to the empty hub
C2_Witness ==
    /\ Len(ingested) = 3
    /\ \A i \in 1..3 : ingested[i].item.name = NameDup
    /\ ingested[3].key = << "d", "u", "p", "_", "3" >>

\* C3: after every completed operation name_to_tool and tool_text have the
\* same keys, and the text of a key is composed from the resolved name (not
\* the candidate) and the item's source, origin and description.
C3_TextPerKey ==
    /\ DictKeys(name_to_tool) = DictKeys(tool_text)
    /\ Len(tool_text) = Len(name_to_tool)
    /\ \A i \in DOMAIN ingested :
         /\ DictHas(tool_text, ingested[i].key)
         /\ DictGet(tool_text, ingested[i].key) =
              << "n", "a", "m", "e", ":", " " >> \o ingested[i].key
              \o << "\n", "s", "o", "u", "r", "c", "e", ":", " " >> \o ingested[i].item.source
              \o << "\n", "o", "r", "i", "g", "i", "n", ":", " " >> \o ingested[i].item.origin
              \o << "\n" >> \o ingested[i].item.description

\* an item was registered under a suffixed name and a query has completed
C3_Witness ==
    /\ last.op = "query"
    /\ \E i \in DOMAIN ingested :
         /\ ingested[i].key # ingested[i].item.name
         /\ DictHas(tool_text, ingested[i].key)

\* C4: after every add_loaded_tools call, also one in which the embedding
\* function raises while the batch's documents are added, the index holds
\* exactly one entry per key of name_to_tool and no entry for another name.
C4_IndexOneToOne ==
    /\ Len(vectorstore) = Len(name_to_tool)
    /\ \A k \in DictKeys(name_to_tool) :
         Cardinality({ i \in DOMAIN vectorstore : vectorstore[i].metadata.tool_name = k }) = 1
    /\ \A i \in DOMAIN vectorstore : vectorstore[i].metadata.tool_name \in DictKeys(name_to_tool)

\* C5: for every key of name_to_tool the stored handle's visible name equals
\* that key, also for a handle passed in several items and for a handle on
\* which setting the name fails.
C5_HandleNameIsKey ==
    \A i \in DOMAIN name_to_tool : toolName[name_to_tool[i].val] = name_to_tool[i].key

ItemsOf(h) == { i \in DOMAIN ingested : ingested[i].item.tool = h }
LastItemOf(h) == CHOOSE i \in ItemsOf(h) : \A j \in ItemsOf(h) : j <= i

\* C5 as amended: every item is registered under its key whether or not the
\* rename succeeds; a handle whose name can be set bears the key of the last
\* item ingested with it (so a handle shared by several items matches only
\* the last of their keys), and a handle whose name cannot be set keeps the
\* name it had.
C5_HandleNameIsLastKey ==
    /\ \A i \in DOMAIN ingested :
         /\ DictHas(name_to_tool, ingested[i].key)
         /\ DictGet(name_to_tool, ingested[i].key) = ingested[i].item.tool
    /\ \A h \in Handles :
         IF h \in FrozenHandles \/ ItemsOf(h) = {}
         THEN toolName[h] = << "t" >>
         ELSE toolName[h] = ingested[LastItemOf(h)].key

\* one handle was ingested in two items and a handle that rejects the rename
\* was ingested too
C5_Witness ==
    /\ \E i, j \in DOMAIN ingested :
         i < j /\ ingested[i].item.tool = ingested[j].item.tool
         /\ ingested[i].item.tool \notin FrozenHandles
    /\ \E i \in DOMAIN ingested : ingested[i].item.tool \in FrozenHandles

\* C6: query_tools on a hub without tools returns the empty list for every
\* query and k, raises nothing and makes no call to the index.
C6_EmptyHubQuery ==
    (last.op = "query" /\ name_to_tool = << >>) =>
        /\ last.result = << >>
        /\ last.indexCalls = << >>
        /\ ~last.raised
        /\ ~last.searchFailed

\* a query with k >= 1 completed on the hub without tools
C6_Witness == last.op = "query" /\ name_to_tool = << >> /\ last.k >= 1

NewKeys == [i \in 1..(Len(ingested') - Len(ingested)) |-> ingested'[Len(ingested) + i].key]

\* C7: add_loaded_tools with an empty batch leaves name_to_tool, tool_text and
\* the index unchanged and calls the index not at all; with a non-empty batch
\* it makes exactly one add call, carrying one document per item in batch
\* order, and by then every item of the batch is resolved and stored (also
\* when that call raises).
C7_OneAddCallPerBatch ==
    [][ last'.op = "add" =>
          IF ingested' = ingested
          THEN /\ name_to_tool' = name_to_tool
               /\ tool_text' = tool_text
               /\ vectorstore' = vectorstore
               /\ last'.indexCalls = << >>
          ELSE /\ Len(last'.indexCalls) = 1
               /\ last'.indexCalls[1].call = "add_documents"
               /\ Len(last'.indexCalls[1].names) = Len(ingested') - Len(ingested)
               /\ \A i \in DOMAIN NewKeys :
                    /\ last'.indexCalls[1].names[i] = NewKeys[i]
                    /\ DictHas(name_to_tool', NewKeys[i])
                    /\ DictHas(tool_text', NewKeys[i])
               /\ IF last'.raised THEN vectorstore' = vectorstore
                  ELSE /\ Len(vectorstore') = Len(vectorstore) + Len(NewKeys)
                       /\ SubSeq(vectorstore', 1, Len(vectorstore)) = vectorstore
                       /\ \A i \in DOMAIN NewKeys :
                            LET doc == vectorstore'[Len(vectorstore) + i]
                            IN  /\ doc.metadata.tool_name = NewKeys[i]
                                /\ doc.page_content = DictGet(tool_text', NewKeys[i])
      ]_vars

\* a batch of two items went to the index in one call
C7_Witness ==
    /\ last.op = "add"
    /\ Len(last.indexCalls) = 1
    /\ Len(last.indexCalls[1].names) = 2
    /\ ~last.raised

\* C8: no operation removes or rebinds an entry: a key present before
\* add_loaded_tools has the same handle and the same text after it, and
\* query_tools and all_tools leave name_to_tool, tool_text and the index
\* unchanged.
C8_EntriesKept ==
    [][ /\ \A k \in DictKeys(name_to_tool) :
             /\ DictHas(name_to_tool', k)
             /\ DictGet(name_to_tool', k) = DictGet(name_to_tool, k)
        /\ \A k \in DictKeys(tool_text) :
             /\ DictHas(tool_text', k)
             /\ DictGet(tool_text', k) = DictGet(tool_text, k)
        /\ (last'.op \in {"query", "all"} =>
              /\ name_to_tool' = name_to_tool
              /\ tool_text' = tool_text
              /\ vectorstore' = vectorstore)
      ]_vars

\* a batch was added to a hub that already held two tools, one under a suffixed name
C8_Witness ==
    /\ last.op = "add"
    /\ Len(last.indexCalls) = 1
    /\ Len(name_to_tool) - Len(last.indexCalls[1].names) = 2
    /\ name_to_tool[2].key # ingested[2].item.name

IsInjective(seq) == \A i, j \in DOMAIN seq : i # j => seq[i] # seq[j]

\* C9: on a hub of N >= 1 tools, query_tools with k >= 0 returns exactly
\* min(k, N) handles, each the handle stored under a registered name, no name
\* twice.
C9_ResultSize ==
    (last.op = "query" /\ name_to_tool # << >> /\ last.k >= 0) =>
        /\ Len(last.result) = Min(last.k, Len(name_to_tool))
        /\ Len(last.top) = Len(last.result)
        /\ IsInjective(last.top)
        /\ \A i \in DOMAIN last.top :
             /\ DictHas(name_to_tool, last.top[i])
             /\ last.result[i] = DictGet(name_to_tool, last.top[i])

\* a query with k = 2 on a hub of three tools, and so two handles returned
C9_Witness ==
    /\ last.op = "query"
    /\ Len(name_to_tool) = 3
    /\ last.k = 2
    /\ Len(last.result) = 2

QueryTokens == Tokenize(NormalizeQuery(last.query))
\* with one and the same vector rank for every tool, a is ranked before b
SentinelBefore(a, b) ==
    LET ba == BoostFor(a, QueryTokens, tool_text)
        bb == BoostFor(b, QueryTokens, tool_text)
    IN  ba > bb \/ (ba = bb /\ StrLess(b, a))

\* C10: when the similarity search raises, query_tools raises nothing, takes
\* the vector pool as empty and returns the ranking of all registered tools in
\* which each has the sentinel vector rank; the result is non-empty when the
\* hub is non-empty and k >= 1.
C10_SearchFailureFallback ==
    (last.op = "query" /\ last.searchFailed) =>
        /\ ~last.raised
        /\ last.vec = << >>
        /\ (last.k >= 1 => last.result # << >>)
        /\ (last.k >= 0 => Len(last.top) = Min(last.k, Len(name_to_tool)))
        /\ \A i \in DOMAIN last.top :
             /\ DictHas(name_to_tool, last.top[i])
             /\ Cardinality({ n \in DictKeys(name_to_tool) :
                                SentinelBefore(n, last.top[i]) }) = i - 1
             /\ last.result[i] = DictGet(name_to_tool, last.top[i])

\* the search raised on a hub of three tools and two handles were returned
C10_Witness ==
    /\ last.op = "query"
    /\ last.searchFailed
    /\ Len(name_to_tool) = 3
    /\ Len(last.result) = 2

\* the token occurrences of a lowercased text: a pair <<s, w>> for every
\* maximal run w of characters in [a-z0-9], s its first position
TokenOccs(low) ==
    LET tc(i) == \/ (Ord(low[i]) >= 97 /\ Ord(low[i]) <= 122)
                 \/ (Ord(low[i]) >= 48 /\ Ord(low[i]) <= 57)
        starts == { s \in DOMAIN low : tc(s) /\ (s = 1 \/ ~tc(s - 1)) }
        endOf(s) == CHOOSE e \in s..Len(low) :
                        /\ \A i \in s..e : tc(i)
                        /\ (e = Len(low) \/ ~tc(e + 1))
    IN  { << s, SubSeq(low, s, endOf(s)) >> : s \in starts }
HasToken(occs, w) == \E o \in occs : o[2] = w
\* the score the claim gives a tool, from the token occurrences of the query
ClaimedScore(name, occs) ==
    LET index_text == Lower(DictGet(tool_text, name))
        in_name == Cardinality({ o \in occs : IsSubstr(o[2], Lower(name)) })
        in_text == Cardinality({ o \in occs : IsSubstr(o[2], index_text) })
        general == /\ \E w \in { WordSearch, WordWho, WordWhat } : HasToken(occs, w)
                   /\ \/ IsSubstr(<< "_", "_", "s", "e", "a", "r", "c", "h" >>, name)
                      \/ EndsWith(name, << "_", "s", "e", "a", "r", "c", "h" >>)
        finance == /\ \E w \in { WordBtc, WordBitcoin, WordEth, WordExchange, WordExchanges } :
                        HasToken(occs, w)
                   /\ \/ StartsWith(name, << "c", "c", "x", "t", "_" >>)
                      \/ IsSubstr(<< "c", "r", "y", "p", "t", "o" >>, index_text)
    IN  2 * in_name + in_text + (IF general THEN 3 ELSE 0) + (IF finance THEN 4 ELSE 0)
\* the claimed score of every registered tool, in registration order
ClaimedScores(text) ==
    LET scores == { SubSeq([i \in DOMAIN name_to_tool |->
                               ClaimedScore(name_to_tool[i].key, occs)],
                           1, Len(name_to_tool)) : occs \in { TokenOccs(Lower(text)) } }
    IN  CHOOSE sc \in scores : TRUE

ClaimedVecRank(name) ==
    LET pos == { i \in DOMAIN last.vec : last.vec[i] = name }
    IN  IF pos = {} THEN Len(name_to_tool) + 1000
        ELSE (CHOOSE i \in pos : \A j \in pos : i <= j) - 1
Pooled(name) == \E i \in DOMAIN last.vec : last.vec[i] = name
\* the position of a registered name in name_to_tool
KeyIndex(name) == CHOOSE i \in DOMAIN name_to_tool : name_to_tool[i].key = name
\* a sorts strictly before b by the claimed key: higher score, then lower vector rank
RanksBefore(a, b, score) ==
    \/ score[KeyIndex(a)] > score[KeyIndex(b)]
    \/ (score[KeyIndex(a)] = score[KeyIndex(b)] /\ ClaimedVecRank(a) < ClaimedVecRank(b))

\* C12: in the list query_tools returns, a tool a before a tool b has
\* score(a) >= score(b) and, on equal scores, vector_rank(a) <= vector_rank(b),
\* the vector rank being the zero-based first position in the index results or
\* N + 1000 for a tool outside the pool; so a higher score wins whatever the
\* vector ranks, a pooled tool precedes a non-pooled one of the same score, and
\* no registered tool left out of the result sorts before a returned one.
C12_ResultOrder ==
    (last.op = "query" /\ name_to_tool # << >>) =>
        \A score \in { ClaimedScores(last.text) } :
           /\ \A i, j \in DOMAIN last.top :
                i < j => ~RanksBefore(last.top[j], last.top[i], score)
           /\ \A i, j \in DOMAIN last.top :
                (i < j /\ score[KeyIndex(last.top[i])] = score[KeyIndex(last.top[j])])
                   => (Pooled(last.top[j]) => Pooled(last.top[i]))
           /\ \A n \in DictKeys(name_to_tool) :
                (\A i \in DOMAIN last.top : last.top[i] # n) =>
                    \A i \in DOMAIN last.top : ~RanksBefore(n, last.top[i], score)

\* a tool outside the pool came first on its higher score, ahead of the
\* pooled tool the index ranked first, and a third tool was left out
C12_Witness ==
    /\ last.op = "query"
    /\ Len(name_to_tool) = 3
    /\ Len(last.top) = 2
    /\ ~Pooled(last.top[1])
    /\ ClaimedVecRank(last.top[2]) = 0
    /\ \E i, j \in DOMAIN last.scored :
         /\ last.scored[i].name = last.top[1]
         /\ last.scored[j].name = last.top[2]
         /\ last.scored[i].b > last.scored[j].b

\* C13: in a hub holding exactly sdk__search and ccxt_get_price, in either
\* registration order and for every order of the index results (the failing
\* search included), "who is the best?" with k = 1 returns sdk__search and
\* "latest btc exchange rates" with k = 1 returns ccxt_get_price.
C13_BoostScenario ==
    (/\ last.op = "query"
     /\ last.k = 1
     /\ Len(name_to_tool) = 2
     /\ DictKeys(name_to_tool) = { NameSdkSearch, NameCcxtGetPrice }) =>
        /\ (last.query = PyStr(QBest) =>
              /\ last.top = << NameSdkSearch >>
              /\ last.result = << DictGet(name_to_tool, NameSdkSearch) >>)
        /\ (last.query = PyStr(QRates) =>
              /\ last.top = << NameCcxtGetPrice >>
              /\ last.result = << DictGet(name_to_tool, NameCcxtGetPrice) >>)

\* ccxt_get_price was registered first and the index listed it first, and
\* "who is the best?" with k = 1 returned sdk__search
C13_Witness ==
    /\ last.op = "query"
    /\ last.k = 1
    /\ Len(name_to_tool) = 2
    /\ name_to_tool[1].key = NameCcxtGetPrice
    /\ name_to_tool[2].key = NameSdkSearch
    /\ last.vec = << NameCcxtGetPrice, NameSdkSearch >>
    /\ last.query = PyStr(QBest)
    /\ last.top = << NameSdkSearch >>

\* a str with at least one character
NonEmptyStr(v) == v.t = "str" /\ v.s # << >>
\* a str with a character that is not whitespace
NonBlankStr(v) == v.t = "str" /\ \E i \in DOMAIN v.s : v.s[i] \notin {" ", "\t", "\n", "\r"}
\* the value a mapping holds under a key, Absent when the key is missing
ValueAt(q, key) ==
    IF \E i \in DOMAIN q.items : q.items[i].key = key
    THEN q.items[CHOOSE i \in DOMAIN q.items : q.items[i].key = key].val
    ELSE Absent
PriorityKeys == << KeyQuery, KeyText, KeyPrompt, KeyContent >>

\* C14: for a mapping query the keys query, text, prompt, content are checked
\* in that order and the first value that is a non-empty string is returned;
\* a key that is missing or holds a non-string or the empty string is skipped.
C14_FirstNonEmptyKey ==
    (last.op = "normalize" /\ last.query.t = "dict") =>
        \A i \in DOMAIN PriorityKeys :
           (/\ NonEmptyStr(ValueAt(last.query, PriorityKeys[i]))
            /\ \A j \in 1..(i - 1) : ~NonEmptyStr(ValueAt(last.query, PriorityKeys[j])))
              => last.text = ValueAt(last.query, PriorityKeys[i]).s

\* C14 as amended: the first value, in the order query, text, prompt, content,
\* that is a string with a character other than whitespace is returned, as it
\* is (not stripped); a key that is missing or holds a non-string, the empty
\* string or a string of whitespace only is skipped.
C14_FirstNonBlankKey ==
    (last.op = "normalize" /\ last.query.t = "dict") =>
        /\ ~last.raised
        /\ \A i \in DOMAIN PriorityKeys :
             (/\ NonBlankStr(ValueAt(last.query, PriorityKeys[i]))
              /\ \A j \in 1..(i - 1) : ~NonBlankStr(ValueAt(last.query, PriorityKeys[j])))
                => last.text = ValueAt(last.query, PriorityKeys[i]).s

\* query holds a blank string, text the empty string, prompt a number, and
\* the content value, with its trailing blank, was returned
C14_Witness ==
    /\ last.op = "normalize"
    /\ last.query.t = "dict"
    /\ ValueAt(last.query, KeyQuery) = PyStr(<< " " >>)
    /\ ValueAt(last.query, KeyText) = PyStr(<< >>)
    /\ ValueAt(last.query, KeyPrompt) = PyInt(7)
    /\ ValueAt(last.query, KeyMessages).t = "list"
    /\ last.text = << "c", " " >>

\* the string form of the whole input, for the inputs that are dicts of
\* strings, numbers and lists
WholeInput(q) == PyToStr(q)

\* C15: the messages key is consulted only when none of query, text, prompt,
\* content yields a result; then, if messages is a non-empty sequence whose
\* last element is a mapping with a non-empty string content, that content is
\* returned and no earlier message is used; if the last element does not
\* qualify, the result is the string form of the whole input.
C15_LastMessageNonEmpty ==
    (/\ last.op = "normalize"
     /\ last.query.t = "dict"
     /\ \A i \in DOMAIN PriorityKeys : ~NonEmptyStr(ValueAt(last.query, PriorityKeys[i]))
     /\ ValueAt(last.query, KeyMessages).t = "list"
     /\ ValueAt(last.query, KeyMessages).items # << >>) =>
        LET msgs == ValueAt(last.query, KeyMessages).items
            lastm == msgs[Len(msgs)]
        IN  IF lastm.t = "dict" /\ NonEmptyStr(ValueAt(lastm, KeyContent))
            THEN last.text = ValueAt(lastm, KeyContent).s
            ELSE last.text = WholeInput(last.query)

\* C15 as amended: with non-empty read as holding a character other than
\* whitespace, for the keys and for the content of the last message: the
\* messages key is never used when one of query, text, prompt, content holds
\* such a string; otherwise, when messages is a non-empty list whose last
\* element is a mapping with such a content, that content is returned as it
\* is; in every other case (no messages, not a list, an empty list, a last
\* element that does not qualify) the result is the string form of the input.
C15_LastMessageNonBlank ==
    (last.op = "normalize" /\ last.query.t = "dict") =>
        LET mv == ValueAt(last.query, KeyMessages)
            lastm == mv.items[Len(mv.items)]
            keyed == \E i \in DOMAIN PriorityKeys :
                        NonBlankStr(ValueAt(last.query, PriorityKeys[i]))
        IN  /\ ~last.raised
            /\ keyed => \E i \in DOMAIN PriorityKeys :
                           last.text = ValueAt(last.query, PriorityKeys[i]).s
            /\ ~keyed =>
                  IF /\ mv.t = "list"
                     /\ mv.items # << >>
                     /\ lastm.t = "dict"
                     /\ NonBlankStr(ValueAt(lastm, KeyContent))
                  THEN last.text = ValueAt(lastm, KeyContent).s
                  ELSE last.text = WholeInput(last.query)

\* no key held a usable string, the messages list held two messages with
\* usable contents, and the content of the last one was returned
C15_Witness ==
    /\ last.op = "normalize"
    /\ last.query.t = "dict"
    /\ ValueAt(last.query, KeyQuery) = PyStr(<< " " >>)
    /\ ValueAt(last.query, KeyContent) = PyInt(7)
    /\ ValueAt(last.query, KeyMessages) =
          PyList(<< Message(PyStr(<< "o", "l", "d" >>)), Message(PyStr(<< "n", "e", "w" >>)) >>)
    /\ last.text = << "n", "e", "w" >>

\* C16: _normalize_query returns a string for every input shape (string,
\* mapping, object with or without a content attribute, number, None) and
\* never raises; a string input is returned as it is, also when empty or
\* blank, and an input matching no structured shape yields its generic string
\* form: 123 gives "123".
C16_NormalizeTotal ==
    last.op = "normalize" =>
        /\ ~last.raised
        /\ \A i \in DOMAIN last.text : last.text[i] \in Chars
        /\ (last.query.t = "str" => last.text = last.query.s)
        /\ (last.query = PyInt(123) => last.text = << "1", "2", "3" >>)
        /\ (last.query = PyInt(0) => last.text = << "0" >>)
        /\ (last.query = PyInt(0 - 45) => last.text = << "-", "4", "5" >>)
        /\ (last.query.t = "none" => last.text = << "N", "o", "n", "e" >>)
        /\ (last.query.t = "obj" =>
              IF NonBlankStr(ValueAt(last.query, KeyContent))
              THEN last.text = ValueAt(last.query, KeyContent).s
              ELSE last.text = WholeInput(last.query))
        /\ ((last.query.t = "dict" /\ last.query.items = << >>) =>
              last.text = << "{", "}" >>)

\* the number 123 was normalized to "123"
C16_Witness ==
    /\ last.op = "normalize"
    /\ last.query = PyInt(123)
    /\ ~last.raised
    /\ last.text = << "1", "2", "3" >>

\* OPENAI_API_KEY is set and not empty
KeySet == environ.key.t = "str" /\ Len(environ.key.s) >= 1

\* C17: the hub uses a supplied embedding_model as it is; without one it uses
\* the OpenAI provider when its class is importable and OPENAI_API_KEY is set
\* and non-empty, else the sentence-transformer model when its class is
\* importable, else the hash embedding; exactly one is selected and never a
\* lower-priority one while a higher-priority one is available.
C17_EmbeddingPriority ==
    /\ (embedding_model # "None" => embedding = embedding_model)
    /\ (embedding_model = "None" =>
          /\ embedding \in { "OpenAIEmbeddings", "SentenceTransformerEmbeddings",
                              "_HashEmbedding" }
          /\ (embedding = "OpenAIEmbeddings" <=> (environ.openai /\ KeySet))
          /\ (embedding = "SentenceTransformerEmbeddings" <=>
                 (~(environ.openai /\ KeySet) /\ environ.sentence))
          /\ (embedding = "_HashEmbedding" <=>
                 (~(environ.openai /\ KeySet) /\ ~environ.sentence)))

\* no model was supplied, the OpenAI class is importable but the key is set
\* to the empty string, and the hub, on the sentence-transformer model, has
\* taken a tool
C17_Witness ==
    /\ embedding_model = "None"
    /\ environ.openai
    /\ environ.key = PyStr(<< >>)
    /\ environ.sentence
    /\ embedding = "SentenceTransformerEmbeddings"
    /\ Len(name_to_tool) = 1

RECURSIVE SumRange(_, _, _)
SumRange(seq, lo, hi) ==
    IF lo > hi THEN 0
    ELSE IF lo = hi THEN seq[lo]
    ELSE SumRange(seq, lo, (lo + hi) \div 2) + SumRange(seq, ((lo + hi) \div 2) + 1, hi)
SumSeq(seq) == SumRange(seq, 1, Len(seq))
\* the vector the claim gives a text: component j (from zero) counts the
\* positions i (from zero) with (i + code_point(text[i])) mod dim = j
IsClaimedVector(vec, text, dim) ==
    /\ Len(vec) = dim
    /\ \A j \in 0..(dim - 1) :
         vec[j + 1] = Cardinality({ i \in 0..(Len(text) - 1) :
                                      (i + Ord(text[i + 1])) % dim = j })
    /\ SumSeq(vec) = Len(text)

\* C18: the hash embedding of a text of dimension dim has length dim, its
\* component j counts the positions i with (i + code_point(text[i])) mod dim
\* = j, its components sum to len(text), it depends on the text alone, and
\* embed_documents gives every text the vector embed_query gives it.
C18_HashEmbedding ==
    /\ (last.op = "embed_query" =>
          IsClaimedVector(last.result, last.query.s, last.k))
    /\ (last.op = "embed_documents" =>
          /\ Len(last.result) = Len(last.query.items)
          /\ \A d \in DOMAIN last.result :
               /\ IsClaimedVector(last.result[d], last.query.items[d].s, last.k)
               /\ \A e \in DOMAIN last.result :
                    last.query.items[e] = last.query.items[d]
                       => last.result[e] = last.result[d])

\* embed_documents of dimension 16 on the text "ab " given twice
C18_Witness ==
    /\ last.op = "embed_documents"
    /\ last.k = 16
    /\ last.query.items = << PyStr(<< "a", "b", " " >>), PyStr(<< "a", "b", " " >>) >>
    /\ last.result[1] = last.result[2]
    /\ last.result[1][2] = 1

\* the names of the tools a load returned, and the names returned before the
\* i-th one
LoadedNames == SubSeq([i \in DOMAIN last.result |-> last.result[i].name], 1, Len(last.result))
NamesBefore(names, i) == { names[j] : j \in 1..(i - 1) }
PairwiseDistinct(names) == \A i, j \in DOMAIN names : names[i] = names[j] => i = j

\* the base_name of every tool of the last load, in the order of the list
LoadBases ==
    IF last.op = "openapi_load" THEN OpenapiRun(last.query.items, SpecUrl).bases
    ELSE SdkRun(last.query.items[1], last.query.items[2][1], last.query.items[3][1]).bases

\* names[i] is base when base is free, else base_n for the first n >= 2 whose
\* base_n is free among the names used before
FirstFreeName(names, bases, i) ==
    LET used == NamesBefore(names, i)
    IN  IF bases[i] \notin used THEN names[i] = bases[i]
        ELSE \E n \in 2..(i + 1) :
                /\ names[i] = SuffixedName(bases[i], n)
                /\ names[i] \notin used
                /\ \A m \in 2..(n - 1) : SuffixedName(bases[i], m) \in used

\* C19: the names in the list returned by one OpenAPILoader.load call, and by
\* one SDKLoader.load call across all of its sources, are pairwise distinct; a
\* name that collides with one already used in that load is the sanitized
\* base name with _n appended, n the first integer >= 2 that is not used.
C19_LoaderNamesDistinct ==
    last.op \in {"openapi_load", "sdk_load"} =>
        \A names \in { LoadedNames } : \A bases \in { LoadBases } :
            /\ PairwiseDistinct(names)
            /\ Len(bases) = Len(names)
            /\ \A i \in DOMAIN names :
                  /\ bases[i] = SanitizeName(bases[i])
                  /\ FirstFreeName(names, bases, i)

\* a document with the operationIds op, op_2 and op again: the third tool
\* collides, _2 is taken, and it is returned as op_3
C19_Witness ==
    /\ last.op = "openapi_load"
    /\ Len(last.result) = 3
    /\ last.result[1].name = << "o", "p" >>
    /\ last.result[2].name = << "o", "p", "_", "2" >>
    /\ last.result[3].name = << "o", "p", "_", "3" >>

\* C20: the names in the list returned by one MCPLoader.aload call are
\* pairwise distinct, also when two servers map to the same prefix and expose
\* a tool of the same name, or one server returns two tools of the same name.
C20_McpNamesDistinct ==
    last.op = "mcp_aload" =>
        \A names \in { SubSeq([i \in DOMAIN last.result |-> last.result[i].name],
                              1, Len(last.result)) } :
            \A i, j \in DOMAIN names : i # j => names[i] # names[j]

\* the (server, tool) pairs of one aload in the order they are fetched
RECURSIVE Fetched(_)
Fetched(servers) ==
    IF servers = << >> THEN << >>
    ELSE SubSeq([i \in DOMAIN Head(servers).tools |->
                    [srv |-> Head(servers), t |-> Head(servers).tools[i]]],
                1, Len(Head(servers).tools))
         \o Fetched(Tail(servers))

\* some given value of the server (its name, command or url) contains the word
\* once lowercased; the words have no space, so this is containment in the
\* joined text
ServerMentions(srv, word) ==
    \E v \in { PyStr(srv.server_name), srv.command, srv.url } :
        v.t = "str" /\ IsSubstr(word, Lower(v.s))

\* the prefix the claim describes, the server name cleaned by clean
ClaimedPrefix(srv, cleaned) ==
    IF ServerMentions(srv, WordCcxt) THEN WordCcxt
    ELSE IF ServerMentions(srv, WordMindmap) \/ ServerMentions(srv, WordMemory)
         THEN WordMindmap
    ELSE IF cleaned # << >> THEN cleaned
    ELSE WordMcp

\* the LoadedTool the claim describes for one fetched tool
ClaimedMcpTool(lt, f, prefix, tool_name) ==
    /\ lt.name = IF StartsWith(tool_name, prefix) THEN tool_name
                 ELSE prefix \o << "_" >> \o tool_name
    /\ lt.tool.name = lt.name
    /\ lt.origin = f.srv.server_name
    /\ lt.source = SrcMcp
    /\ lt.description = IF f.t.description = << >> THEN DefaultDescription
                        ELSE f.t.description

\* C21 as stated: the fallback prefix is the sanitized server name, or mcp
\* when the sanitized name is empty, and the loaded name is built from the
\* tool name as fetched.
C21_McpPrefixSanitized ==
    last.op = "mcp_aload" /\ ~last.raised =>
        \A fetched \in { Fetched(last.query.items[1]) } :
            /\ Len(last.result) = Len(fetched)
            /\ \A i \in DOMAIN fetched :
                  ClaimedMcpTool(last.result[i], fetched[i],
                                 ClaimedPrefix(fetched[i].srv,
                                               SanitizeName(fetched[i].srv.server_name)),
                                 fetched[i].t.name)

\* C21: MCPLoader.aload returns one LoadedTool per fetched tool, in order,
\* named with the prefix of its server: ccxt if the lowercased name, command
\* or url mentions ccxt, else mindmap if they mention mindmap or memory, else
\* the sanitized server name with its leading and trailing underscores
\* stripped, or mcp when nothing is left.  The name is prefix_toolname, a tool
\* name that starts with the prefix is kept unchanged, a tool without a name
\* counts as named tool; origin is the server name and an empty description
\* becomes MCP tool.
C21_McpPrefixStripped ==
    last.op = "mcp_aload" /\ ~last.raised =>
        \A fetched \in { Fetched(last.query.items[1]) } :
            /\ Len(last.result) = Len(fetched)
            /\ \A i \in DOMAIN fetched :
                  ClaimedMcpTool(last.result[i], fetched[i],
                                 ClaimedPrefix(fetched[i].srv,
                                     StripUnderscores(SanitizeName(fetched[i].srv.server_name))),
                                 IF fetched[i].t.name = << >> THEN WordTool
                                 ELSE fetched[i].t.name)

\* a load from the server .a.b and a ccxt server: the first tool is named
\* a_b_price, the tool ccxt_price keeps its name and gets the default
\* description, and price becomes ccxt_price
C21_Witness ==
    /\ last.op = "mcp_aload"
    /\ Len(last.query.items[1]) = 2
    /\ last.query.items[1][1].server_name = << ".", "a", ".", "b" >>
    /\ Len(last.result) = 3
    /\ last.result[1].name = << "a", "_", "b", "_", "p", "r", "i", "c", "e" >>
    /\ last.result[2].name = ToolCcxtPrice.name
    /\ last.result[2].description = DefaultDescription
    /\ last.result[3].name = ToolCcxtPrice.name
    /\ last.result[3].description = << "P" >>

\* C22: build_tool_hub and MCPLoader.load, called by a thread that has a
\* running event loop, raise RuntimeError and do nothing else: no collaborator
\* is called (no hub is constructed, no loader and no client is started) and
\* no field of a hub changes.  Called with no running loop they do what the
\* asynchronous build or load does when run to completion, and return its
\* result or raise what it raised.
C22_SyncEntryPoints ==
    [][last'.op \in {"build", "mcp_load"} =>
        IF task.loop_running
        THEN /\ last'.raised
             /\ last'.result = << RuntimeError >>
             /\ calls' = calls
             /\ UNCHANGED <<name_to_tool, tool_text, vectorstore, toolName, embedding_model,
                            embedding, ingested>>
        ELSE IF last'.op = "build"
        THEN \E embedOk \in BOOLEAN :
               \E run \in { BuildRun(last'.query.items, toolName, embedOk) } :
                 /\ last'.raised = run.raised
                 /\ last'.result = IF run.raised THEN << >> ELSE << HubHandle >>
                 /\ calls' = calls \o run.calls
                 /\ name_to_tool' = run.n2t
                 /\ vectorstore' = run.store
                 /\ ingested' = run.hist
                 /\ embedding' # NoHub
        ELSE \E run \in { McpARun(last'.query.items[1], last'.query.items[2][1],
                                  last'.query.items[3][1]) } :
                 /\ last'.raised = run.raised
                 /\ last'.result = run.result
                 /\ calls' = calls \o run.calls
    ]_vars

\* build_tool_hub was called with two sources by a thread with a running loop
\* and raised
C22_Witness ==
    /\ last.op = "build"
    /\ task.loop_running
    /\ Len(last.query.items) = 2
    /\ last.raised
    /\ calls = << >>
    /\ embedding = NoHub

\* positions of the history at which thread t found name free, and stored it
FreeChecks(t, name) ==
    { i \in DOMAIN calls : calls[i].fn = "contains" /\ calls[i].arg.thread = t
                           /\ calls[i].arg.name = name }
Stores(t, name) ==
    { i \in DOMAIN calls : calls[i].fn = "setitem" /\ calls[i].arg.thread = t
                           /\ calls[i].arg.name = name }

\* the second thread found name free after the first thread had found it free
\* and before the first thread stored it, and both have stored it by now
RaceOn(first, second, name) ==
    /\ first # second
    /\ \E i \in FreeChecks(first, name), j \in FreeChecks(second, name),
         k \in Stores(first, name) :
            /\ i < j /\ j < k
            /\ \A m \in Stores(first, name) : m < i \/ m >= k
    /\ Stores(second, name) # { }

\* no step of a thread lies between the call and the return of the other
Serialized ==
    \A i, j \in DOMAIN calls :
        (i < j /\ calls[i].fn = "add_loaded_tools"
               /\ calls[j].arg.thread # calls[i].arg.thread)
        => \E r \in i..j : calls[r].fn = "return" /\ calls[r].arg.thread = calls[i].arg.thread

RaceNames == { NameDup, NameDup2, SuffixedName(NameDup, 3) }

\* C23: add_loaded_tools takes no lock.  When a thread's membership test for
\* a name runs between another thread's membership test and store of the same
\* name, both store under that key: two ingested items have the same key, the
\* table holds the handle stored last, and there are fewer keys than ingested
\* items.  When the two calls do not overlap, every ingested item has a key of
\* its own.
C23_UnserializedOverwrite ==
    /\ \A first, second \in Threads, name \in RaceNames :
          RaceOn(first, second, name) =>
              /\ \E a, b \in DOMAIN ingested :
                    a < b /\ ingested[a].key = name /\ ingested[b].key = name
                    /\ DictGet(name_to_tool, name) # ingested[a].item.tool
              /\ Len(name_to_tool) < Len(ingested)
    /\ Serialized =>
          /\ Len(name_to_tool) = Len(ingested)
          /\ \A a, b \in DOMAIN ingested : ingested[a].key = ingested[b].key => a = b

\* both threads brought one tool named dup, both found the name free before
\* either stored it, and both returned: one key for two ingested items
C23_Witness ==
    /\ RaceOn(1, 2, NameDup)
    /\ \A t \in Threads : task[t].pc = "done"
    /\ Len(ingested) = 2
    /\ Len(name_to_tool) = 1
    /\ DictGet(name_to_tool, NameDup) = "h3"
    /\ ~Serialized

\* the loader the claim assigns to a source
ClaimedLoader(src) ==
    IF src.shape = "str"
       /\ (StartsWith(src.text, HttpPrefix) \/ StartsWith(src.text, HttpsPrefix))
    THEN "openapi"
    ELSE IF src.shape = "dict" THEN "mcp"
    ELSE "sdk"

\* the order the claim gives: the sources that are no dict, then the dicts
ClaimedOrder(sources) ==
    SelectSeq(sources, LAMBDA src : src.shape # "dict")
    \o SelectSeq(sources, LAMBDA src : src.shape = "dict")

RECURSIVE ItemsOfSources(_)
ItemsOfSources(order) ==
    IF order = << >> THEN << >> ELSE Head(order).items \o ItemsOfSources(Tail(order))

\* the index raised during the build: a document of an ingested item is missing
IndexRaised == Len(vectorstore) < Len(ingested)

\* C24: abuild_tool_hub hands an http:// or https:// string to the OpenAPI
\* loader, any other string and any other object to the SDK loader and a dict
\* to the MCP loader; every source that is no dict is loaded and ingested in
\* list order before any dict, so the i-th tool named dup in that order gets
\* the i-th key dup, dup_2, ...; the hub is returned after all sources were
\* ingested, and when a loader raises no later loader is called and no hub is
\* returned.
C24_BuildOrder ==
    last.op = "abuild" /\ ~IndexRaised =>
        \A order \in { ClaimedOrder(last.query.items) } :
        \A called \in { IF \E i \in DOMAIN order : order[i].fails
                        THEN CHOOSE i \in DOMAIN order :
                                 order[i].fails /\ \A j \in 1..(i - 1) : ~order[j].fails
                        ELSE Len(order) } :
        \A loaded \in { ItemsOfSources(SelectSeq(SubSeq(order, 1, called),
                                                 LAMBDA src : ~src.fails)) } :
            /\ calls = << Call("UnifiedToolHub", << >>) >>
                       \o SubSeq([i \in 1..called |->
                                     Call(ClaimedLoader(order[i]), order[i].id)], 1, called)
            /\ Len(ingested) = Len(loaded)
            /\ \A i \in DOMAIN loaded :
                  /\ ingested[i].item = loaded[i]
                  /\ ingested[i].key = IF i = 1 THEN NameDup ELSE SuffixedName(NameDup, i)
                  /\ DictGet(name_to_tool, ingested[i].key) = loaded[i].tool
            /\ last.raised = (\E i \in DOMAIN order : order[i].fails)
            /\ last.result = IF last.raised THEN << >> ELSE << HubHandle >>

\* sources = [dict, url]: the tool of the url is registered first as dup, the
\* tool of the dict after it as dup_2, and the hub is returned
C24_Witness ==
    /\ last.op = "abuild"
    /\ ~last.raised
    /\ Len(last.query.items) = 2
    /\ last.query.items[1].shape = "dict"
    /\ last.query.items[2].shape = "str"
    /\ Len(ingested) = 2
    /\ ingested[1].item.source = SrcOpenapi /\ ingested[1].key = NameDup
    /\ ingested[2].item.source = SrcMcp /\ ingested[2].key = NameDup2

\* the positions of the calls to fn in the history of calls
CallsTo(fn) == { i \in DOMAIN calls : calls[i].fn = fn }

\* C25: aload awaits aclose exactly once when the client has one, after the
\* last get_tools, whether every server was fetched or get_tools raised; what
\* aclose raises is swallowed, so a fetch without failure returns the tools of
\* every server; when get_tools raises, the servers after it are not asked,
\* the exception reaches the caller and no list is returned.
C25_ClientClosedOnce ==
    last.op = "mcp_aload" =>
        \A servers \in { last.query.items[1] } :
        \A failAt \in { last.query.items[2][1] } :
        \A client \in { last.query.items[3][1] } :
            /\ Cardinality(CallsTo("aclose")) = IF client.has_aclose THEN 1 ELSE 0
            /\ \A i \in CallsTo("aclose") : \A j \in CallsTo("get_tools") : j < i
            /\ \A i \in CallsTo("aclose") : i = Len(calls)
            /\ Cardinality(CallsTo("get_tools")) =
                   IF failAt = 0 THEN Len(servers) ELSE failAt
            /\ last.raised = (failAt # 0)
            /\ failAt = 0 =>
                  /\ Len(last.result) = Len(Fetched(servers))
                  /\ \A i \in DOMAIN last.result :
                        last.result[i].origin = Fetched(servers)[i].srv.server_name
            /\ failAt # 0 => last.result = << >>

\* the second server's get_tools raises after the first server gave a tool:
\* the client is closed once, its aclose raises too, and the caller gets the
\* get_tools failure and no list
C25_Witness ==
    /\ last.op = "mcp_aload"
    /\ last.raised
    /\ last.result = << >>
    /\ Len(last.query.items[1]) = 2
    /\ last.query.items[1][1].tools # << >>
    /\ last.query.items[2][1] = 2
    /\ last.query.items[3][1] = McpClient(TRUE, TRUE)
    /\ Cardinality(CallsTo("aclose")) = 1
    /\ calls[Len(calls)].fn = "aclose"

\* ------------------------------------------------------- tool invocation
\* One invocation of a wrapped tool by a caller thread that has, or has not,
\* a running event loop. A call in the history names the thread that made it.
ToolCall(fn, thread, arg) == Call(fn, [thread |-> thread, with |-> arg])

\* what a call of a callable does: kind is "value" (it returns v), "raise"
\* (it raises an Exception) or "raise_base" (it raises a BaseException that is
\* no Exception); v names the value or the exception
Outcome(kind, v) == [kind |-> kind, v |-> v]
OutcomeKinds == {"value", "raise", "raise_base"}

\* the inner tool of a proxy: _run returns an awaitable or not, the outcome of
\* _run (of awaiting what it returned, when an awaitable), the outcome of
\* _arun, and whether _arun takes a config parameter
Inner(run_awaitable, run, arun, config) ==
    [run_awaitable |-> run_awaitable, run |-> run, arun |-> arun, config |-> config]
Inners ==
    { Inner(aw, Outcome(rk, IF aw THEN "awaited _run" ELSE "_run"),
            Outcome(ak, "_arun"), cfg) :
        aw \in BOOLEAN, rk \in OutcomeKinds, ak \in OutcomeKinds, cfg \in BOOLEAN }

NoContainer == Outcome("none", "None")

\* the position of a proxy call: the caller's pc, the worker thread's pc, the
\* two containers of _run_coro_in_new_loop (one record: a value or an error)
\* and the exception in flight in the worker
ProxyTask(pc, loop_running, inner, worker, container, exc) ==
    [pc |-> pc, loop_running |-> loop_running, inner |-> inner, worker |-> worker,
     container |-> container, exc |-> exc]

ToolStarted(loop_running) ==
    /\ name_to_tool = << >>
    /\ tool_text = << >>
    /\ vectorstore = << >>
    /\ toolName = [h \in BuildHandles |-> << "t" >>]
    /\ embedding_model = NoModel
    /\ environ = Environ(TRUE, TRUE, PyStr(<< "x" >>))
    /\ embedding = NoHub
    /\ ingested = << >>
    /\ task = [pc |-> "idle", loop_running |-> loop_running]
    /\ calls = << >>
    /\ last = OpRecord("start", NoQuery, 0, << >>, FALSE, FALSE, << >>, << >>, << >>)

\* an invocation returns to its caller: the value, or the exception raised
ToolReturned(op, input, out) ==
    last' = OpRecord(op, input, 0, << >>, out.kind \in {"raise", "raise_base"}, FALSE,
                     << >>, << >>,
                     << out.v >>)

\* the coroutine _call_inner_arun(kwargs) run on a thread: inner._arun is
\* awaited, with config={} when its signature has the parameter
CallInnerArun(inner, thread) ==
    [calls |-> << ToolCall("inner._arun", thread,
                           IF inner.config THEN "config={}" ELSE "") >>,
     out |-> inner.arun]

\* _SyncProxyTool._run with no running loop: inner._run, asyncio.run of what
\* it returned when that is an awaitable, and on an Exception from either the
\* fallback asyncio.run(_call_inner_arun(kwargs))
ProxyRunSync(inner) ==
    LET first == << ToolCall("inner._run", "caller", "") >>
                 \o (IF inner.run_awaitable
                     THEN << ToolCall("asyncio.run", "caller", "result") >> ELSE << >>)
        fallback == CallInnerArun(inner, "caller")
    IN  IF inner.run.kind = "raise"
        THEN [calls |-> first \o << ToolCall("asyncio.run", "caller", "_call_inner_arun") >>
                        \o fallback.calls,
              out |-> fallback.out]
        ELSE [calls |-> first, out |-> inner.run]

\* _SyncProxyTool._run(**kwargs), up to its return or, with a running loop,
\* up to thread.join() of _run_coro_in_new_loop
ProxyRun(inner) ==
    /\ task.pc = "idle"
    /\ last.op = "start"
    /\ IF task.loop_running
       THEN /\ task' = ProxyTask("join", TRUE, inner, "started", NoContainer, NoContainer)
            /\ calls' = calls \o << ToolCall("Thread.start", "caller", "_runner") >>
            /\ UNCHANGED last
       ELSE \E run \in { ProxyRunSync(inner) } :
            /\ task' = ProxyTask("done", FALSE, inner, "none", NoContainer, NoContainer)
            /\ calls' = calls \o run.calls
            /\ ToolReturned("proxy_run", LoaderInput("inner", << inner >>, 0), run.out)
    /\ UNCHANGED <<name_to_tool, tool_text, vectorstore, toolName, embedding_model,
                   environ, embedding, ingested>>

\* _runner in the worker thread: a new event loop is made and set
RunnerNewLoop ==
    /\ task.pc = "join"
    /\ task.worker = "started"
    /\ task' = [task EXCEPT !.worker = "loop"]
    /\ calls' = calls \o << ToolCall("new_event_loop", "worker", "") >>
    /\ UNCHANGED <<name_to_tool, tool_text, vectorstore, toolName, embedding_model,
                   environ, embedding, ingested, last>>

\* _runner: loop.run_until_complete(coro); its value goes to result_container,
\* what it raises stays in flight through the finally block
RunnerRunCoro ==
    /\ task.pc = "join"
    /\ task.worker = "loop"
    /\ \E run \in { CallInnerArun(task.inner, "worker") } :
          /\ task' = [task EXCEPT !.worker = "ran",
                                  !.container = IF run.out.kind = "value" THEN run.out ELSE @,
                                  !.exc = IF run.out.kind = "value" THEN @ ELSE run.out]
          /\ calls' = calls \o run.calls
    /\ UNCHANGED <<name_to_tool, tool_text, vectorstore, toolName, embedding_model,
                   environ, embedding, ingested, last>>

\* _runner: the finally block closes the loop, 'except BaseException' puts an
\* exception in flight into error_container, and the thread ends
RunnerClose ==
    /\ task.pc = "join"
    /\ task.worker = "ran"
    /\ task' = [task EXCEPT !.worker = "finished",
                            !.container = IF task.exc = NoContainer THEN @ ELSE task.exc,
                            !.exc = NoContainer]
    /\ calls' = calls \o << ToolCall("loop.close", "worker", "") >>
    /\ UNCHANGED <<name_to_tool, tool_text, vectorstore, toolName, embedding_model,
                   environ, embedding, ingested, last>>

\* what _run_coro_in_new_loop gives its caller from the containers: the error
\* raised, or result_container.get("value")
ProxyJoined ==
    /\ task' = [task EXCEPT !.pc = "done"]
    /\ calls' = calls \o << ToolCall("Thread.join", "caller", "") >>
    /\ ToolReturned("proxy_run", LoaderInput("inner", << task.inner >>, 0), task.container)
    /\ UNCHANGED <<name_to_tool, tool_text, vectorstore, toolName, embedding_model,
                   environ, embedding, ingested>>

\* the caller going on without waiting for the worker thread
ProxyJoin_NoWait ==
    /\ task.pc = "join"
    /\ ProxyJoined

\* thread.join() returns once the worker thread has ended, and _run returns
ProxyJoin ==
    /\ task.pc = "join"
    /\ task.worker = "finished"
    /\ ProxyJoined

\* the target of a _CallableTool: whether calling it returns an awaitable,
\* the outcome of its first call (of awaiting it, when an awaitable) and the
\* outcome of a second call; "raise_runtime" is a RuntimeError
Target(awaitable, first, second) ==
    [awaitable |-> awaitable, first |-> first, second |-> second]
Targets ==
    { Target(aw, Outcome(fk, "first call"), Outcome(sk, "second call")) :
        aw \in BOOLEAN, fk \in {"value", "raise"},
        sk \in {"value", "raise", "raise_runtime"} }

\* the whole of _CallableTool._arun on the thread that runs the coroutine:
\* the target is called there; an awaitable result is awaited; otherwise,
\* with a running loop, the target is called again through to_thread and that
\* outcome is returned, a RuntimeError of it being caught by the except clause
\* that then returns the first result
CallableArunRun(target, loop_running) ==
    LET first == << ToolCall("target", "caller", "") >>
        again == << ToolCall("to_thread", "caller", "target"),
                    ToolCall("target", "worker", "") >>
    IN  IF target.awaitable \/ target.first.kind # "value" \/ ~loop_running
        THEN [calls |-> first, out |-> target.first]
        ELSE [calls |-> first \o again,
              out |-> IF target.second.kind = "raise_runtime" THEN target.first
                      ELSE target.second]

\* await tool._arun(**kwargs) of a _CallableTool
CallableArun(target) ==
    /\ task.pc = "idle"
    /\ last.op = "start"
    /\ \E run \in { CallableArunRun(target, task.loop_running) } :
          /\ calls' = calls \o run.calls
          /\ ToolReturned("callable_arun", LoaderInput("target", << target >>, 0), run.out)
    /\ UNCHANGED <<name_to_tool, tool_text, vectorstore, toolName, embedding_model,
                   environ, embedding, ingested, task>>

\* str.replace(old, new) for a non-empty old: left to right, not overlapping
RECURSIVE Replace(_, _, _)
Replace(s, old, new) ==
    IF Len(s) < Len(old) THEN s
    ELSE IF SubSeq(s, 1, Len(old)) = old
         THEN new \o Replace(SubSeq(s, Len(old) + 1, Len(s)), old, new)
         ELSE << Head(s) >> \o Replace(Tail(s), old, new)

\* the loop of _build_url over path_params: "{key}" is replaced by str(val)
RECURSIVE FillPath(_, _)
FillPath(url_path, path_params) ==
    IF path_params = << >> THEN url_path
    ELSE FillPath(Replace(url_path, << "{" >> \o Head(path_params).key \o << "}" >>,
                          Head(path_params).val),
                  Tail(path_params))

\* EndpointTool._build_url: the filled path joined to base_url by one slash
BuildUrl(base_url, path_template, path_params) ==
    LET url_path == FillPath(path_template, path_params)
    IN  IF EndsWith(base_url, << "/" >>) /\ StartsWith(url_path, << "/" >>)
        THEN SubSeq(base_url, 1, Len(base_url) - 1) \o url_path
        ELSE IF ~EndsWith(base_url, << "/" >>) /\ ~StartsWith(url_path, << "/" >>)
             THEN base_url \o << "/" >> \o url_path
             ELSE base_url \o url_path

KeyError == << "e", "r", "r", "o", "r" >>
KeyMethod == << "m", "e", "t", "h", "o", "d" >>
KeyUrl == << "u", "r", "l" >>
KeyStatus == << "s", "t", "a", "t", "u", "s" >>

\* what the HTTP layer does with one request: requests.request raises a
\* RequestException with message error ("transport"), raises another exception
\* ("raise"), or gives a response ("response") with its status code, whether
\* raise_for_status raises for it, whether the body parses as JSON, the parsed
\* value and the text of the body
Http(kind, error, status_code, http_error, is_json, json, text) ==
    [kind |-> kind, error |-> error, status_code |-> status_code,
     http_error |-> http_error, is_json |-> is_json, json |-> json, text |-> text]

\* the whole of EndpointTool._run for one answer of the HTTP layer
EndpointRun_RaiseOnStatus(method, url, http) ==
    IF http.kind = "raise" \/ (http.kind = "response" /\ http.http_error)
    THEN Outcome("raise", NoQuery)
    ELSE IF http.kind = "transport"
    THEN Outcome("value", PyDict(<< Entry(KeyError, PyStr(http.error)),
                                    Entry(KeyMethod, PyStr(Upper(method))),
                                    Entry(KeyUrl, PyStr(url)) >>))
    ELSE IF http.is_json
    THEN Outcome("value", http.json)
    ELSE Outcome("value", PyDict(<< Entry(KeyStatus, PyInt(http.status_code)),
                                    Entry(KeyText, PyStr(http.text)),
                                    Entry(KeyUrl, PyStr(url)) >>))

EndpointRun(method, url, http) ==
    IF http.kind = "raise"
    THEN Outcome("raise", NoQuery)
    ELSE IF http.kind = "transport"
    THEN Outcome("value", PyDict(<< Entry(KeyError, PyStr(http.error)),
                                    Entry(KeyMethod, PyStr(Upper(method))),
                                    Entry(KeyUrl, PyStr(url)) >>))
    ELSE IF ~http.http_error /\ http.is_json
    THEN Outcome("value", http.json)
    ELSE Outcome("value", PyDict(<< Entry(KeyStatus, PyInt(http.status_code)),
                                    Entry(KeyText, PyStr(http.text)),
                                    Entry(KeyUrl, PyStr(url)) >>))

\* an EndpointTool with the arguments of one call
Endpoint(method, base_url, path_template, path_params) ==
    [method |-> method, base_url |-> base_url, path_template |-> path_template,
     path_params |-> path_params]

BodyOk == PyDict(<< Entry(<< "o", "k" >>, PyInt(1)) >>)

Endpoints ==
    { Endpoint(m, b, p, pp) :
        m \in { << "g", "e", "t" >>, << "P", "o", "s", "t" >> },
        b \in { << "h" >>, << "h", "/" >> },
        p \in { << "/", "p" >>, << "p" >>, << "/", "{", "a", "}" >> },
        pp \in { << >>, << Entry(<< "a" >>, << "7" >>) >> } }

Https ==
    { Http("transport", << "d", "o", "w", "n" >>, 0, FALSE, FALSE, NoQuery, << >>),
      Http("raise", << >>, 0, FALSE, FALSE, NoQuery, << >>) }
    \cup { Http("response", << >>, code[1], code[2], js, IF js THEN BodyOk ELSE NoQuery,
                IF js THEN << "{", "}" >> ELSE << "n", "o" >>) :
             code \in { << 200, FALSE >>, << 404, TRUE >>, << 500, TRUE >> },
             js \in BOOLEAN }

\* tool._run(path_params=...) or await tool._arun(path_params=...) of an
\* EndpointTool: _arun returns self._run(**kwargs)
EndpointCall(op, endpoint, http) ==
    /\ task.pc = "idle"
    /\ last.op = "start"
    /\ op = "endpoint_arun" => task.loop_running
    /\ \E url \in { BuildUrl(endpoint.base_url, endpoint.path_template,
                             endpoint.path_params) } :
       \E out \in { EndpointRun(endpoint.method, url, http) } :
          /\ calls' = calls \o << ToolCall("requests.request", "caller", url) >>
          /\ last' = OpRecord(op, LoaderInput("endpoint", << endpoint, http >>, 0), 0, << >>,
                              out.kind = "raise", FALSE, << >>, << >>, << out.v >>)
    /\ UNCHANGED <<name_to_tool, tool_text, vectorstore, toolName, embedding_model,
                   environ, embedding, ingested, task>>

EndpointRunCall(endpoint, http) == EndpointCall("endpoint_run", endpoint, http)
EndpointArunCall(endpoint, http) == EndpointCall("endpoint_arun", endpoint, http)

InitTool == \E loop_running \in BOOLEAN : ToolStarted(loop_running)

\* one invocation per run, by a thread that made no call before; the worker
\* thread of a proxy call takes its steps while the caller waits
NextTool ==
    \/ \E inner \in Inners : ProxyRun(inner)
    \/ RunnerNewLoop
    \/ RunnerRunCoro
    \/ RunnerClose
    \/ ProxyJoin
    \/ \E target \in Targets : CallableArun(target)
    \/ \E endpoint \in Endpoints, http \in Https : EndpointRunCall(endpoint, http)
    \/ \E endpoint \in Endpoints, http \in Https : EndpointArunCall(endpoint, http)

SpecTool == InitTool /\ [][NextTool]_vars

\* the calls to fn made by a thread
CallsBy(fn, thread) == { i \in CallsTo(fn) : calls[i].arg.thread = thread }

\* with a running loop: no inner._run, no asyncio.run on the caller's thread,
\* inner._arun once on the worker thread between new_event_loop and
\* loop.close, the caller back only after the worker thread ended, with the
\* outcome of the coroutine
ProxyOnWorkerThread(inner) ==
    /\ CallsTo("inner._run") = {}
    /\ CallsBy("asyncio.run", "caller") = {}
    /\ CallsBy("inner._arun", "caller") = {}
    /\ Cardinality(CallsBy("inner._arun", "worker")) = 1
    /\ \A i \in CallsBy("inner._arun", "worker") :
          /\ \E j \in CallsBy("new_event_loop", "worker") : j < i
          /\ \E j \in CallsBy("loop.close", "worker") : i < j
    /\ task.worker = "finished"
    /\ \A i \in DOMAIN calls : calls[i].arg.thread = "worker" => i < Len(calls)
    /\ calls[Len(calls)] = ToolCall("Thread.join", "caller", "")
    /\ last.raised = (inner.arun.kind # "value")
    /\ last.result = << inner.arun.v >>

\* C26 as stated: with a running loop _SyncProxyTool._run works on a worker
\* thread as above; with no running loop it calls inner._run first and runs
\* inner._arun only if inner._run raised.
C26_ProxyFallbackOnlyIfRunRaises ==
    last.op = "proxy_run" =>
        \A inner \in { last.query.items[1] } :
            IF task.loop_running
            THEN ProxyOnWorkerThread(inner)
            ELSE /\ calls[1] = ToolCall("inner._run", "caller", "")
                 /\ Cardinality(CallsTo("inner._run")) = 1
                 /\ CallsTo("inner._arun") # {} =>
                        ~inner.run_awaitable /\ inner.run.kind \in {"raise", "raise_base"}

\* C26: with a running loop _SyncProxyTool._run calls neither inner._run nor
\* asyncio.run on the caller's thread, runs inner._arun on a new loop in a
\* worker thread, resumes after that thread ended and gives the coroutine's
\* value or raises its exception; with no running loop it calls inner._run
\* once, runs an awaitable that inner._run returned, and runs inner._arun
\* exactly when inner._run or that awaitable raised an Exception, giving the
\* outcome of inner._arun then and the outcome of inner._run otherwise.
C26_ProxyFallbackOnException ==
    last.op = "proxy_run" =>
        \A inner \in { last.query.items[1] } :
            IF task.loop_running
            THEN ProxyOnWorkerThread(inner)
            ELSE /\ calls[1] = ToolCall("inner._run", "caller", "")
                 /\ Cardinality(CallsTo("inner._run")) = 1
                 /\ CallsTo("inner._arun") # {} <=> inner.run.kind = "raise"
                 /\ Cardinality(CallsTo("inner._arun")) <= 1
                 /\ \A out \in { IF inner.run.kind = "raise" THEN inner.arun
                                 ELSE inner.run } :
                        /\ last.raised = (out.kind # "value")
                        /\ last.result = << out.v >>

\* a proxy call under a running loop came back with the exception that
\* inner._arun raised on the worker thread
C26_Witness ==
    /\ last.op = "proxy_run"
    /\ task.loop_running
    /\ task.worker = "finished"
    /\ last.raised
    /\ last.result = << "_arun" >>
    /\ CallsBy("inner._arun", "worker") # {}

\* C27: one call of _CallableTool._arun calls the target exactly once, and a
\* target that is no coroutine function is not called on the thread of the
\* event loop.
C27_TargetCalledOnce ==
    last.op = "callable_arun" =>
        \A target \in { last.query.items[1] } :
            /\ Cardinality(CallsTo("target")) = 1
            /\ task.loop_running /\ ~target.awaitable => CallsBy("target", "caller") = {}

\* the dict of a Python value as the set of its keys
KeysOf(v) == { v.items[i].key : i \in DOMAIN v.items }

\* C28: EndpointTool._run returns {error, method, url} with the upper-cased
\* method when the request raises a RequestException, {status, text, url}
\* when the response has an HTTP error status or a body that is no JSON, and
\* the parsed JSON only for a response without HTTP error and with a JSON
\* body; it raises in none of these cases, and _arun gives what _run gives.
C28_EndpointOutcomes ==
    last.op \in {"endpoint_run", "endpoint_arun"} =>
        \A endpoint \in { last.query.items[1] } :
        \A http \in { last.query.items[2] } :
        \A url \in { calls[1].arg.with } :
        \A v \in { last.result[1] } :
            /\ http.kind = "transport" =>
                  /\ ~last.raised
                  /\ v.t = "dict" /\ KeysOf(v) = {KeyError, KeyMethod, KeyUrl}
                  /\ DictGet(v.items, KeyError) = PyStr(http.error)
                  /\ Len(DictGet(v.items, KeyMethod).s) = Len(endpoint.method)
                  /\ \A i \in DOMAIN endpoint.method :
                        LowerChar(DictGet(v.items, KeyMethod).s[i]) = LowerChar(endpoint.method[i])
                        /\ UpperTable[DictGet(v.items, KeyMethod).s[i]]
                               = DictGet(v.items, KeyMethod).s[i]
                  /\ DictGet(v.items, KeyUrl) = PyStr(url)
            /\ http.kind = "response" /\ (http.http_error \/ ~http.is_json) =>
                  /\ ~last.raised
                  /\ v.t = "dict" /\ KeysOf(v) = {KeyStatus, KeyText, KeyUrl}
                  /\ DictGet(v.items, KeyStatus) = PyInt(http.status_code)
                  /\ DictGet(v.items, KeyText) = PyStr(http.text)
                  /\ DictGet(v.items, KeyUrl) = PyStr(url)
            /\ http.kind = "response" /\ ~http.http_error /\ http.is_json =>
                  ~last.raised /\ v = http.json
            /\ last.op = "endpoint_arun" =>
                  /\ last.raised = (EndpointRun(endpoint.method, url, http).kind = "raise")
                  /\ v = EndpointRun(endpoint.method, url, http).v

\* a response with status 404 and a JSON body: _run gives status, text and
\* url, not the parsed body
C28_Witness ==
    /\ last.op = "endpoint_run"
    /\ ~last.raised
    /\ last.query.items[2].kind = "response"
    /\ last.query.items[2].http_error
    /\ last.query.items[2].is_json
    /\ KeysOf(last.result[1]) = {KeyStatus, KeyText, KeyUrl}
    /\ last.result[1] # last.query.items[2].json

\* the orders in which n tools can have been registered
RegistrationOrders(n) == { p \in [1..n -> 1..n] : \A i, j \in 1..n : p[i] = p[j] => i = j }

\* the tuple scored for a name in the last query
ScoredOf(name) == last.scored[CHOOSE i \in DOMAIN last.scored : last.scored[i].name = name]

\* C29: the names query_tools returns do not depend on the order of
\* registration: a hub with the same names and composed texts in any other
\* order of all_names gives, for the same query text, k and index results,
\* the same sequence of names; two names next to each other in the result
\* with the same boost and the same vector rank are in descending order of
\* name.
C29_OrderIndependent ==
    last.op = "query" /\ ~HubEmpty(name_to_tool) =>
        \A names \in { DictKeyList(name_to_tool) } :
            /\ \A p \in RegistrationOrders(Len(names)) :
                  TopNames(Scored(SubSeq([i \in DOMAIN names |-> names[p[i]]], 1, Len(names)),
                                  last.vec, Tokenize(last.text), tool_text,
                                  Len(name_to_tool) + SentinelOffset),
                           last.k) = last.top
            /\ \A i \in 1..(Len(last.top) - 1) :
                  \/ ScoredOf(last.top[i]).b > ScoredOf(last.top[i + 1]).b
                  \/ /\ ScoredOf(last.top[i]).b = ScoredOf(last.top[i + 1]).b
                     /\ ScoredOf(last.top[i]).nvr > ScoredOf(last.top[i + 1]).nvr
                  \/ /\ ScoredOf(last.top[i]).b = ScoredOf(last.top[i + 1]).b
                     /\ ScoredOf(last.top[i]).nvr = ScoredOf(last.top[i + 1]).nvr
                     /\ StrLess(last.top[i + 1], last.top[i])

\* two names registered in ascending order tie on boost and vector rank and
\* are returned in descending order of name
C29_Witness ==
    /\ last.op = "query"
    /\ Len(last.top) >= 2
    /\ ScoredOf(last.top[1]).b = ScoredOf(last.top[2]).b
    /\ ScoredOf(last.top[1]).nvr = ScoredOf(last.top[2]).nvr
    /\ StrLess(last.top[2], last.top[1])
    /\ \E i, j \in DOMAIN name_to_tool :
          i < j /\ name_to_tool[i].key = last.top[2] /\ name_to_tool[j].key = last.top[1]

\* C30: for a hub that is not empty and k <= 0, query_tools returns the empty
\* list; it never returns more handles than k.
C30_NoMoreThanK ==
    last.op = "query" /\ ~HubEmpty(name_to_tool) =>
        /\ last.k <= 0 => last.result = << >>
        /\ last.k >= 0 => Len(last.result) <= last.k
====
